---- MODULE Spec2Model ----
(***************************************************************************)
(* World generation and chunk streaming of the backrooms game             *)
(* (src/unnamed/part_003, the world module; constants of                  *)
(* src/unnamed/part_001).                                                 *)
(*                                                                         *)
(* Six state machines share this module:                                  *)
(*   SpecGrid    runs generateWallGrid phase by phase on one chunk         *)
(*               coordinate after another;                                 *)
(*   Spec        runs the frame loop: the camera moves or turns and the    *)
(*               move is collided, updateChunks loads and evicts chunks,   *)
(*               the volume updates read the panels and the phones;        *)
(*   SpecCollide runs handleCollision wall by wall (src/src/main.js);      *)
(*   SpecSight   calls hasLineOfSight between pairs of points;             *)
(*   SpecRepair  runs the repair loops of generateWallGrid on any fill of  *)
(*               a small grid, with any shuffles;                          *)
(*   SpecEntity  calls updateBacteriaEntity frame after frame (the entity  *)
(*               module of src/unnamed/part_003).                          *)
(***************************************************************************)
EXTENDS Integers, Sequences, FiniteSets, TLC

(***************************************************************************)
(* Program constants.                                                      *)
(***************************************************************************)
CHUNK_SIZE == 24
RENDER_DIST == 2
PRELOAD_DIST == 4
PHONE_EXCLUSION_DIST == 6
\* const gSize = 3 in generateChunk
GSize == 3

(***************************************************************************)
(* Bounds of the model.                                                    *)
(***************************************************************************)
\* SpecGrid calls generateWallGrid for chunk coordinates in -MaxCoord..MaxCoord
MaxCoord == 3
\* Spec runs this many animation frames after the frame of the start handler
MaxFrames == 2
\* SpecRepair runs the repair passes on every grid of gSize 1..MaxRepairSize
MaxRepairSize == 2
\* SpecEntity runs frames until performance.now() passes MaxTime ms
MaxTime == 5000
\* the window is AspectW : AspectH (camera.aspect)
AspectW == 16
AspectH == 9

VARIABLES
    engine,         \* the sorting algorithm of the JavaScript engine the game runs on
    \* ---- one call of generateWallGrid (SpecGrid)
    gpc,            \* position in generateWallGrid
    gargs,          \* [cx, cz] of the call in progress
    grid,           \* [h, v, s]: hWalls, vWalls and the state of the closure rng
    gcell,          \* index z * gSize + x of the next cell of the repair pass
    gpass1,         \* [h, v] as the first repair pass left them
    gret,           \* { hWalls, vWalls } returned by the last completed call
    gprev,          \* an earlier call, what it returned and whether a call for
                    \* another chunk was made since; or [set |-> FALSE]
    \* ---- the frame loop (Spec)
    camera,         \* [x, z, look]: camera.position and camera.rotation
    matrixWorldInverse, \* the pose camera.matrixWorldInverse was computed from
    resources,      \* [outletModel, wallPhoneModel]: is the model loaded
    chunks,         \* the Map of resident chunks, entries [key, obj] in insertion order
    walls,          \* the wall meshes collision and line of sight test against
    lightPanels,
    phonePositions,
    phoneMeshes,
    chunkBorders,
    debugNormals,
    scene,          \* the groups (serial) and borders (-serial) in the scene
    created,        \* the number of groups created so far
    pc,             \* where the frame loop stands
    frames,         \* animation frames run after the start handler
    lastCall,       \* the last updateChunks call: what it was given, whether the
                    \* call before was given the same, the keys it generated and
                    \* the chunks it evicted
    unloaded,       \* the keys of the chunks evicted so far
    former,         \* for each of these keys, the walls the chunk had when it
                    \* was last evicted: geometry and world position
    reads,          \* what the readers of the lists last saw: the serials of
                    \* the groups whose walls handleCollision tested, or whose
                    \* panels and phone positions the volume updates measured
    \* ---- one call of handleCollision (SpecCollide)
    cpc,            \* position in handleCollision
    proposed,       \* the position handleCollision was given
    target,         \* the position as corrected so far
    pBox,           \* the agent's box, built when the call starts
    wallIndex,      \* i, the index of the next wall (from 0)
    pushes,         \* what the loop did on each wall it has tested
    earlier,        \* the call before this one: what it was given and what it
                    \* returned; or [set |-> FALSE]
    \* ---- calls of hasLineOfSight (SpecSight)
    sight,          \* the last call, its arguments and result, and the one before;
                    \* calls is 0, 1, or 2 for two calls or more
    \* ---- the repair passes of generateWallGrid on any grid (SpecRepair)
    rpc,            \* position in generateWallGrid
    rsize,          \* gSize
    rgrid,          \* [h, v]: hWalls and vWalls
    rcell,          \* index z * gSize + x of the cell of the repair pass
    rcount,         \* openSides, or wallCount, of that cell
    \* ---- the bacteria entity (SpecEntity)
    now,            \* performance.now(), in ms
    player,         \* <<x, z>> of camera.position, in thousandths
    bacteria,       \* the module state of the entity: bacteriaVisible,
                    \* bacteriaEntity.position and the four timers
    lastUpdate,     \* the last updateBacteriaEntity call: its arguments, whether
                    \* it called spawnBacteriaEntity and what that returned
    hidden          \* when the entity was last hidden and the spawn delay then

gridVars == <<gpc, gargs, grid, gcell, gpass1, gret, gprev>>
worldVars == <<chunks, walls, lightPanels, phonePositions, phoneMeshes,
               chunkBorders, debugNormals, scene, created>>
streamVars == <<camera, matrixWorldInverse, resources, chunks, walls, lightPanels,
                phonePositions, phoneMeshes, chunkBorders, debugNormals, scene,
                created, pc, frames, lastCall, unloaded, former, reads>>
queryVars == <<cpc, proposed, target, pBox, wallIndex, pushes, earlier, sight>>
repairVars == <<rpc, rsize, rgrid, rcell, rcount>>
entityVars == <<now, player, bacteria, lastUpdate, hidden>>
vars == <<engine, gpc, gargs, grid, gcell, gpass1, gret, gprev,
          camera, matrixWorldInverse, resources, chunks, walls, lightPanels,
          phonePositions, phoneMeshes, chunkBorders, debugNormals, scene,
          created, pc, frames, lastCall, unloaded, former, reads,
          cpc, proposed, target, pBox, wallIndex, pushes, earlier, sight,
          rpc, rsize, rgrid, rcell, rcount,
          now, player, bacteria, lastUpdate, hidden>>

\* TRUE.  The model checker evaluates the arguments of an operator on demand;
\* testing Evaluated(v) computes v at once, as a loop of the code finishes
\* one iteration before it starts the next.
Evaluated(v) == v = v

\* v, computed at once where it is built
Computed(v) == IF Evaluated(v) THEN v ELSE v

(***************************************************************************)
(* Number arithmetic of the platform.  A JavaScript number is an IEEE-754   *)
(* double: an integer result of more than 53 significant bits is rounded   *)
(* to nearest, ties to even.  Values beyond 2^31 are kept as little-endian  *)
(* sequences of 15-bit limbs so that no intermediate result leaves the     *)
(* range of the model checker's integers.                                  *)
(***************************************************************************)
Limb == 32768
Half16 == 65536
MantissaBits == 53
Mask31 == 2147483647

RECURSIVE BitLen(_)
BitLen(n) == IF n = 0 THEN 0 ELSE 1 + BitLen(n \div 2)

RECURSIVE Pow2(_)
Pow2(k) == IF k = 0 THEN 1 ELSE 2 * Pow2(k - 1)

\* carry propagation: cols are column sums (< 2^31 each), result are limbs
RECURSIVE Normalize(_, _, _)
Normalize(cols, i, carry) ==
    IF i > Len(cols)
    THEN IF carry = 0 THEN << >> ELSE <<carry>>
    ELSE LET t == cols[i] + carry
         IN  <<t % Limb>> \o Normalize(cols, i + 1, t \div Limb)

RECURSIVE TopIndex(_, _)
TopIndex(d, i) == IF i = 0 THEN 0 ELSE IF d[i] # 0 THEN i ELSE TopIndex(d, i - 1)

\* number of significant bits of the value held in limbs d
LimbBitLen(d) ==
    LET t == TopIndex(d, Len(d))
    IN  IF t = 0 THEN 0 ELSE (15 * (t - 1)) + BitLen(d[t])

\* limb x with its bits below q rounded away: to nearest, ties to even
RoundedLimb(x, q) ==
    IF (2 * (x % q) > q) \/ (2 * (x % q) = q /\ (x \div q) % 2 = 1)
    THEN x - (x % q) + q
    ELSE x - (x % q)

RoundAt(d, L) ==
    IF L <= MantissaBits THEN d
    ELSE Normalize([d EXCEPT ![1] = RoundedLimb(d[1], Pow2(L - MantissaBits))], 1, 0)

\* the double nearest to the integer held in d
RoundToDouble(d) == RoundAt(d, LimbBitLen(d))

ToLimbs(n) == <<n % Limb, (n \div Limb) % Limb, n \div (Limb * Limb)>>

LcgMul == 1103515245
LcgC == 12345
LcgA == ToLimbs(LcgMul)

\* s * 1103515245 as a double
MulA(s) ==
    RoundToDouble(Normalize(
        << s[1] * LcgA[1],
           s[1] * LcgA[2] + s[2] * LcgA[1],
           s[1] * LcgA[3] + s[2] * LcgA[2] + s[3] * LcgA[1],
           s[2] * LcgA[3] + s[3] * LcgA[2],
           s[3] * LcgA[3] >>, 1, 0))

\* p + 12345 as a double
AddC(p) == RoundToDouble(Normalize([p EXCEPT ![1] = p[1] + LcgC], 1, 0))

\* x & 0x7fffffff of a non-negative double held in limbs
And31(d) == d[1] + (d[2] * Limb) + ((d[3] % 2) * Limb * Limb)

\* one step of the stream of seededRandom, from a state held in limbs:
\*   s = (s * 1103515245 + 12345) & 0x7fffffff
LcgLimbs(s) == And31(AddC(MulA(s)))

\* seededRandom(seed): the closure's state s starts as the seed; each call of
\* the closure replaces s and returns s / 0x7fffffff
seededRandom(seed) == seed
RngStep(s) == ToLimbs(LcgLimbs(s))
RngValue(s) == And31(s)

\* rng() > 0.45, with rng() = s / 0x7fffffff
Above045(s) == s > (9 * (Mask31 \div 20)) + ((9 * (Mask31 % 20)) \div 20)

\* the sign of rng() - 0.5 is positive
AboveHalf(s) == s > Mask31 \div 2

(***************************************************************************)
(* The chunk seed: ((cx * 73856093) ^ (cz * 19349663)) >>> 0.              *)
(* Each product is converted by ToInt32; a 32-bit word is a pair           *)
(* <<high 16 bits, low 16 bits>>.                                          *)
(***************************************************************************)
SeedMulX == 73856093
SeedMulZ == 19349663
SeedKx == <<SeedMulX \div Half16, SeedMulX % Half16>>
SeedKz == <<SeedMulZ \div Half16, SeedMulZ % Half16>>

Abs(n) == IF n < 0 THEN -n ELSE n

Neg32(w) ==
    IF w[2] = 0 THEN <<(Half16 - w[1]) % Half16, 0>>
    ELSE <<Half16 - 1 - w[1], Half16 - w[2]>>

\* the low 32 bits of m * k, m >= 0
MulLow(m, k) ==
    <<((m * k[1]) + ((m * k[2]) \div Half16)) % Half16, (m * k[2]) % Half16>>

\* ToInt32(c * k), as the 32-bit two's-complement word
MulWord(c, k) == IF c < 0 THEN Neg32(MulLow(-c, k)) ELSE MulLow(c, k)

RECURSIVE Xor(_, _)
Xor(a, b) ==
    IF a = 0 THEN b
    ELSE IF b = 0 THEN a
    ELSE 2 * Xor(a \div 2, b \div 2) + (((a % 2) + (b % 2)) % 2)

\* the unsigned 32-bit word <<hi, lo>> as 15-bit limbs
WordLimbs(hi, lo) ==
    << lo % Limb, (lo \div Limb) + 2 * (hi % (Limb \div 2)), hi \div (Limb \div 2) >>

XorWords(a, b) == WordLimbs(Xor(a[1], b[1]), Xor(a[2], b[2]))

\* const seed = ((cx * 73856093) ^ (cz * 19349663)) >>> 0
ChunkSeed(cx, cz) == XorWords(MulWord(cx, SeedKx), MulWord(cz, SeedKz))

(***************************************************************************)
(* Array.prototype.sort with the comparator () => rng() - 0.5.  The        *)
(* comparator ignores its arguments, so the language leaves the resulting  *)
(* order and the number of draws to the engine's sorting algorithm.  Two   *)
(* algorithms engines use on short arrays are modelled; the engine is      *)
(* fixed for a whole run (variable engine).                                *)
(***************************************************************************)
Engines == {"insertion", "binary"}

\* insertion sort: element a[i] moves left while comparefn(a[j], element) > 0;
\* s2 is the stream after the draw of that comparison
RECURSIVE InsertLinear(_, _, _, _)
InsertCompared(a, element, j, s2) ==
    IF AboveHalf(RngValue(s2))
    THEN InsertLinear([a EXCEPT ![j + 1] = a[j]], element, j - 1, s2)
    ELSE [a |-> [a EXCEPT ![j + 1] = element], s |-> s2]

InsertLinear(a, element, j, s) ==
    IF j < 1 THEN [a |-> [a EXCEPT ![1] = element], s |-> s]
    ELSE InsertCompared(a, element, j, RngStep(s))

\* binary insertion sort: the slot of the pivot is found by bisection,
\* going left when comparefn(pivot, a[mid]) < 0
RECURSIVE Bisect(_, _, _)
BisectCompared(left, right, mid, s2) ==
    IF ~AboveHalf(RngValue(s2))
    THEN Bisect(left, mid, s2)
    ELSE Bisect(mid + 1, right, s2)

Bisect(left, right, s) ==
    IF left >= right THEN [pos |-> left, s |-> s]
    ELSE BisectCompared(left, right, left + ((right - left) \div 2), RngStep(s))

\* a[start] moved to slot b.pos, the elements between shifted right
PlaceAt(a, start, b) ==
    [a |-> [k \in 1..Len(a) |->
              IF k < b.pos \/ k > start THEN a[k]
              ELSE IF k = b.pos THEN a[start]
              ELSE a[k - 1]],
     s |-> b.s]

InsertBinary(a, start, s) == PlaceAt(a, start, Bisect(1, start, s))

RECURSIVE SortFrom(_, _, _, _)
SortNext(eng, r, i) == SortFrom(eng, r.a, i + 1, r.s)

SortFrom(eng, a, i, s) ==
    IF i > Len(a) THEN [a |-> a, s |-> s]
    ELSE IF eng = "insertion"
         THEN SortNext(eng, InsertLinear(a, a[i], i - 1, s), i)
         ELSE SortNext(eng, InsertBinary(a, i, s), i)

\* [...sides].sort(() => rng() - 0.5)
Shuffle(eng, sides, s) == SortFrom(eng, sides, 2, s)

(***************************************************************************)
(* generateWallGrid.  A grid is [h, v, s]: hWalls, vWalls and the state of *)
(* the chunk's random stream.                                              *)
(***************************************************************************)
Mid(gSize) == gSize \div 2

\* (mutant) vWalls indexed [z][x] like hWalls
SidesSameIndex(z, x) == << <<"h", z + 1, x>>, <<"h", z, x>>, <<"v", z + 1, x>>, <<"v", z, x>> >>

\* the four bounding slots of cell (x, z), in the order of the code
Sides(z, x) == << <<"h", z + 1, x>>, <<"h", z, x>>, <<"v", x + 1, z>>, <<"v", x, z>> >>

IsWall(g, side) ==
    IF side[1] = "h" THEN g.h[side[2]][side[3]] ELSE g.v[side[2]][side[3]]

SetOpen(g, side) ==
    IF side[1] = "h" THEN [g EXCEPT !.h[side[2]][side[3]] = FALSE]
    ELSE [g EXCEPT !.v[side[2]][side[3]] = FALSE]

CountOpen(g, sides) == Cardinality({k \in 1..Len(sides) : ~IsWall(g, sides[k])})
CountWalls(g, sides) == Cardinality({k \in 1..Len(sides) : IsWall(g, sides[k])})

\* hWalls[i][j] = rng() > 0.45, and the same for vWalls[i][j]
SetH(g, i, j, s1) == [g EXCEPT !.h[i][j] = Above045(RngValue(s1)), !.s = s1]
SetV(g, i, j, s1) == [g EXCEPT !.v[i][j] = Above045(RngValue(s1)), !.s = s1]
DrawH(g, i, j) == SetH(g, i, j, RngStep(g.s))
DrawV(g, i, j) == SetV(g, i, j, RngStep(g.s))

\* the nested loops that draw every slot, from slot pair k = i * gSize + j on
RECURSIVE FillFrom(_, _, _)
FillThen(next, k, gSize) ==
    IF Evaluated(next) THEN FillFrom(next, k + 1, gSize) ELSE next

FillFrom(g, k, gSize) ==
    IF k >= (gSize + 1) * gSize THEN g
    ELSE FillThen(DrawV(DrawH(g, k \div gSize, k % gSize), k \div gSize, k % gSize),
                  k, gSize)

EmptyGrid(gSize, seed) ==
    [h |-> [i \in 0..gSize |-> [j \in 0..(gSize - 1) |-> FALSE]],
     v |-> [i \in 0..gSize |-> [j \in 0..(gSize - 1) |-> FALSE]],
     s |-> seededRandom(seed)]

FillGrid(cx, cz, gSize) == FillFrom(EmptyGrid(gSize, ChunkSeed(cx, cz)), 0, gSize)

\* (mutant) only the hWalls edges are opened
OpenEdgesOnlyH(g, gSize) ==
    [g EXCEPT !.h[gSize][Mid(gSize)] = FALSE, !.h[0][Mid(gSize)] = FALSE]

\* "Remove walls on chunk boundaries"
OpenEdges(g, gSize) ==
    [g EXCEPT !.h[gSize][Mid(gSize)] = FALSE, !.h[0][Mid(gSize)] = FALSE,
              !.v[gSize][Mid(gSize)] = FALSE, !.v[0][Mid(gSize)] = FALSE]

\* (mutant) the scan opens nothing
OpenScanIdle(g, shuffled, k, openSides) == [g |-> g, n |-> openSides]

\* for (const side of shuffled): open closed slots until openSides >= 2
RECURSIVE OpenScan(_, _, _, _)
OpenScan(g, shuffled, k, openSides) ==
    IF k > Len(shuffled) THEN [g |-> g, n |-> openSides]
    ELSE IF IsWall(g, shuffled[k])
         THEN IF openSides + 1 >= 2
              THEN [g |-> SetOpen(g, shuffled[k]), n |-> openSides + 1]
              ELSE OpenScan(SetOpen(g, shuffled[k]), shuffled, k + 1, openSides + 1)
         ELSE OpenScan(g, shuffled, k + 1, openSides)

\* while (openSides < 2): shuffle, scan, test again
RECURSIVE OpenWhile(_, _, _, _)
OpenAgain(r, sides, eng) == OpenWhile(r.g, sides, r.n, eng)
OpenShuffled(g, sh, sides, openSides, eng) ==
    OpenAgain(OpenScan([g EXCEPT !.s = sh.s], sh.a, 1, openSides), sides, eng)

OpenWhile(g, sides, openSides, eng) ==
    IF openSides >= 2 THEN g
    ELSE OpenShuffled(g, Shuffle(eng, sides, g.s), sides, openSides, eng)

\* (mutant) the first repair pass opens nothing
EnsureOpenCellSkipped(g, z, x, eng) == g

\* first repair pass, body for one cell: "at least 2 open sides"
EnsureOpenCell(g, z, x, eng) ==
    OpenWhile(g, Sides(z, x), CountOpen(g, Sides(z, x)), eng)

\* for (const side of shuffled): open closed slots until wallCount <= 2
RECURSIVE LimitScan(_, _, _, _)
LimitScan(g, shuffled, k, wallCount) ==
    IF k > Len(shuffled) THEN [g |-> g, n |-> wallCount]
    ELSE IF IsWall(g, shuffled[k])
         THEN IF wallCount - 1 <= 2
              THEN [g |-> SetOpen(g, shuffled[k]), n |-> wallCount - 1]
              ELSE LimitScan(SetOpen(g, shuffled[k]), shuffled, k + 1, wallCount - 1)
         ELSE LimitScan(g, shuffled, k + 1, wallCount)

\* while (wallCount > 2): shuffle, scan, test again
RECURSIVE LimitWhile(_, _, _, _)
LimitAgain(r, sides, eng) == LimitWhile(r.g, sides, r.n, eng)
LimitShuffled(g, sh, sides, wallCount, eng) ==
    LimitAgain(LimitScan([g EXCEPT !.s = sh.s], sh.a, 1, wallCount), sides, eng)

LimitWhile(g, sides, wallCount, eng) ==
    IF wallCount <= 2 THEN g
    ELSE LimitShuffled(g, Shuffle(eng, sides, g.s), sides, wallCount, eng)

\* second repair pass, body for one cell: "no cell has more than 2 walls"
LimitWallsCell(g, z, x, eng) ==
    LimitWhile(g, Sides(z, x), CountWalls(g, Sides(z, x)), eng)

\* a repair pass over the cells c..gSize*gSize-1, z outer, x inner
RECURSIVE EnsureOpenFrom(_, _, _, _)
EnsureOpenThen(next, c, gSize, eng) ==
    IF Evaluated(next) THEN EnsureOpenFrom(next, c + 1, gSize, eng) ELSE next

EnsureOpenFrom(g, c, gSize, eng) ==
    IF c >= gSize * gSize THEN g
    ELSE EnsureOpenThen(EnsureOpenCell(g, c \div gSize, c % gSize, eng), c, gSize, eng)

RECURSIVE LimitWallsFrom(_, _, _, _)
LimitWallsThen(next, c, gSize, eng) ==
    IF Evaluated(next) THEN LimitWallsFrom(next, c + 1, gSize, eng) ELSE next

LimitWallsFrom(g, c, gSize, eng) ==
    IF c >= gSize * gSize THEN g
    ELSE LimitWallsThen(LimitWallsCell(g, c \div gSize, c % gSize, eng), c, gSize, eng)

\* (mutant) one stream shared by all calls
NewStreamShared(cx, cz, leftover) == leftover

\* const seed = ...; const rng = seededRandom(seed): every call makes its own
\* closure; leftover is the state the previous call's closure ended in
NewStream(cx, cz, leftover) == seededRandom(ChunkSeed(cx, cz))

\* return { hWalls, vWalls }
GridResult(g) == [hWalls |-> g.h, vWalls |-> g.v]

generateWallGrid(cx, cz, gSize, eng) ==
    GridResult(LimitWallsFrom(
        EnsureOpenFrom(OpenEdges(FillGrid(cx, cz, gSize), gSize), 0, gSize, eng),
        0, gSize, eng))

(***************************************************************************)
(* The camera and its frustum.  Lengths of the frustum computation are in  *)
(* tenths of a world unit, so that the eye height 1.7 and the near         *)
(* distance 0.1 are integers.  A pose is [x, z, look]: the position        *)
(* (x, 1.7, z) and one of four orientations, three level ones along the    *)
(* axes and one straight down (rotation.x at its lower clamp).             *)
(***************************************************************************)
\* camera.position.set(0, 1.7, 0), in tenths
CameraY == 17
\* new THREE.PerspectiveCamera(80, aspect, 0.1, 400): near and far in tenths,
\* tan(80 / 2 degrees) = 0.839 as a fraction
CameraNear == 1
CameraFar == 4000
FovTanNum == 839
FovTanDen == 1000

Tenths(n) == 10 * n

Looks == {"-z", "+x", "+z", "down"}

Dot(a, b) == (a[1] * b[1]) + (a[2] * b[2]) + (a[3] * b[3])

Cross(a, b) ==
    << (a[2] * b[3]) - (a[3] * b[2]),
       (a[3] * b[1]) - (a[1] * b[3]),
       (a[1] * b[2]) - (a[2] * b[1]) >>

\* k * a + m * b
Comb(k, a, m, b) ==
    << (k * a[1]) + (m * b[1]), (k * a[2]) + (m * b[2]), (k * a[3]) + (m * b[3]) >>

\* the camera looks along its local -z axis, rotated by rotation.y and rotation.x
Forward(look) ==
    CASE look = "-z" -> <<0, 0, -1>>
      [] look = "+x" -> <<1, 0, 0>>
      [] look = "+z" -> <<0, 0, 1>>
      [] look = "down" -> <<0, -1, 0>>

\* the camera's local +y axis
Up(look) == IF look = "down" THEN <<0, 0, -1>> ELSE <<0, 1, 0>>

\* a plane through point p shifted by off along its normal:
\* distanceToPoint(q) = normal . q + constant, up to a positive factor
Plane(normal, p, off) == [normal |-> normal, constant |-> off - Dot(normal, p)]

\* the six planes of the view volume of a camera at eye with axes f, u, r:
\* right, left, bottom, top, far, near, normals pointing inwards
FrustumPlanes(eye, f, u, r) ==
    << Plane(Comb(AspectW * FovTanNum, f, -(AspectH * FovTanDen), r), eye, 0),
       Plane(Comb(AspectW * FovTanNum, f, AspectH * FovTanDen, r), eye, 0),
       Plane(Comb(FovTanNum, f, FovTanDen, u), eye, 0),
       Plane(Comb(FovTanNum, f, -FovTanDen, u), eye, 0),
       Plane(Comb(-1, f, 0, u), eye, CameraFar),
       Plane(f, eye, -CameraNear) >>

\* frustumMatrix.multiplyMatrices(camera.projectionMatrix, camera.matrixWorldInverse);
\* frustum.setFromProjectionMatrix(frustumMatrix)
setFromProjectionMatrix(view) ==
    FrustumPlanes(<<Tenths(view.x), CameraY, Tenths(view.z)>>,
                  Forward(view.look), Up(view.look),
                  Cross(Forward(view.look), Up(view.look)))

\* the corner of the box farthest along the normal
FarCorner(normal, box) ==
    [c \in 1..3 |-> IF normal[c] > 0 THEN box.max[c] ELSE box.min[c]]

\* Frustum.intersectsBox: the box is rejected when it lies wholly behind one plane
intersectsBox(frustum, box) ==
    \A p \in 1..Len(frustum) :
        Dot(frustum[p].normal, FarCorner(frustum[p].normal, box)) + frustum[p].constant >= 0

isChunkPotentiallyVisible(frustum, cx, cz) ==
    intersectsBox(frustum,
        [min |-> << Tenths((cx * CHUNK_SIZE) - (CHUNK_SIZE \div 2)), 0,
                    Tenths((cz * CHUNK_SIZE) - (CHUNK_SIZE \div 2)) >>,
         max |-> << Tenths((cx * CHUNK_SIZE) + (CHUNK_SIZE \div 2)), Tenths(3),
                    Tenths((cz * CHUNK_SIZE) + (CHUNK_SIZE \div 2)) >>])

\* (mutant) only the chunks next to the camera's chunk are nearby
isChunkNearbyAdjacent(cx, cz, playerChunkX, playerChunkZ) ==
    /\ Abs(cx - playerChunkX) <= 1
    /\ Abs(cz - playerChunkZ) <= 1

isChunkNearby(cx, cz, playerChunkX, playerChunkZ) ==
    /\ Abs(cx - playerChunkX) <= RENDER_DIST
    /\ Abs(cz - playerChunkZ) <= RENDER_DIST

isChunkInPreloadRange(cx, cz, playerChunkX, playerChunkZ) ==
    /\ Abs(cx - playerChunkX) <= PRELOAD_DIST
    /\ Abs(cz - playerChunkZ) <= PRELOAD_DIST

\* Math.floor(camera.position.x / CHUNK_SIZE)
PlayerChunk(p) == p \div CHUNK_SIZE

(***************************************************************************)
(* generateChunk.  An object of the scene graph is a record: isMesh,       *)
(* geometry (the shared geometry it was built with, or the class of an     *)
(* object that owns its geometry or has none), its parent group            *)
(* <<serial, cx, cz>> and its place in the group.  The serial numbers the   *)
(* groups in the order they are created, so that the objects of a chunk    *)
(* built again are not the objects of the chunk built first.               *)
(***************************************************************************)
\* the positions the camera is moved to, and the chunks updateChunks can then scan
CamXs == {-(CHUNK_SIZE \div 2), 0}
CamZs == {-(2 * CHUNK_SIZE), 0}
ChunkXs ==
    UNION {(PlayerChunk(x) - PRELOAD_DIST)..(PlayerChunk(x) + PRELOAD_DIST) : x \in CamXs}
ChunkZs ==
    UNION {(PlayerChunk(z) - PRELOAD_DIST)..(PlayerChunk(z) + PRELOAD_DIST) : z \in CamZs}

\* generateWallGrid(cx, cz, gSize) for every chunk in reach
WallGrids ==
    Computed([eng \in Engines |->
        [c \in ChunkXs \X ChunkZs |-> generateWallGrid(c[1], c[2], GSize, eng)]])

\* the 32-bit word <<hi, lo>> as a signed integer
Signed(w) ==
    IF w[1] >= Half16 \div 2 THEN ((w[1] - Half16) * Half16) + w[2]
    ELSE (w[1] * Half16) + w[2]

\* const seed = (cx * 12345) ^ (cz * 54321)
TrigSeed(cx, cz) ==
    Signed(<< Xor(MulWord(cx, <<0, 12345>>)[1], MulWord(cz, <<0, 54321>>)[1]),
              Xor(MulWord(cx, <<0, 12345>>)[2], MulWord(cz, <<0, 54321>>)[2]) >>)

\* rnd(s) = Math.abs(Math.sin(s) * 10000) % 1 is tabulated for the seeds of
\* the wall slots of the chunks in reach: the seeds s with rnd(s) <= 0.05
\* among the outlet seeds, and those with rnd(s) <= 0.005 among the phone seeds
OutletRolls ==
    {
      -372560, -367742, -360005, -359187, -348906, -341926, -339187, -337121,
      -336320, -332320, -330561, -322561, -321629, -317121, -303687, -303605,
      -299605, -284249, -279605, -275687, -267687, -260930, -252930, -248249,
      -236613, -236249, -226047, -221284, -205435, -205078, -199546, -191313,
      -180146, -175319, -170963, -170465, -162467, -154465, -148146, -147319,
      -144146, -132756, -132642, -132146, -124756, -124642, -116756, -96642,
      -86070, -78378, -68073, -66321, -60073, -57380, -54378, -46378,
      -33333, -32690, -31128, -29564, -22321, -14438, -13518, -9564,
      -6438, -4000, 0, 4000, 10482, 22321, 32690, 33333,
      33516, 42376, 57380, 60073, 66321, 68073, 86070, 90376,
      96642, 124642, 132146, 132642, 144146, 144752, 147319, 148146,
      154465, 162467, 163310, 170465, 170963, 174698, 175319, 180146,
      191313, 205078, 205435, 219544, 221284, 226047, 236249, 236613,
      248249, 267687, 275687, 279605, 284249, 299605, 303605, 303687,
      309396, 311189, 314563, 317121, 320904, 321629, 322563, 337121,
      355088, 359740, 375088, 379740, 399088, 412558 }

PhoneRolls ==
    {
      -265055, -253284, -83945, -49976, -37173, -32690, 32635, 32690,
      220491, 241849, 276958, 277974, 333249, 357466, 384903 }

Mesh(geometry, group, at) ==
    [isMesh |-> TRUE, geometry |-> geometry, group |-> group, at |-> at]

\* a Line, a helper, or a clone of a loaded model: no mesh, no shared geometry
Object3D(class, group, at) ==
    [isMesh |-> FALSE, geometry |-> class, group |-> group, at |-> at]

\* the slots <<i, j>> in the order of the loops over i = 0..gSize, j = 0..gSize-1
Slots(gSize) ==
    Computed([n \in 1..((gSize + 1) * gSize) |-> <<(n - 1) \div gSize, (n - 1) % gSize>>])

\* wallsInChunk: the closed slots, vertical ones first, with the wall centre
\* relative to the chunk centre
wallsInChunk(g, gSize) ==
    LET cellSize == CHUNK_SIZE \div gSize
        half == CHUNK_SIZE \div 2
        IsV(s) == g.vWalls[s[1]][s[2]]
        IsH(s) == g.hWalls[s[1]][s[2]]
        V(s) == [type |-> "V", i |-> s[1], j |-> s[2],
                 x |-> (s[1] * cellSize) - half,
                 z |-> ((s[2] * cellSize) - half) + (cellSize \div 2)]
        H(s) == [type |-> "H", i |-> s[1], j |-> s[2],
                 x |-> ((s[2] * cellSize) - half) + (cellSize \div 2),
                 z |-> (s[1] * cellSize) - half]
        vs == SelectSeq(Slots(gSize), IsV)
        hs == SelectSeq(Slots(gSize), IsH)
    IN  Computed([n \in 1..Len(vs) |-> V(vs[n])] \o [n \in 1..Len(hs) |-> H(hs[n])])

At(info, n) == <<info.type, info.i, info.j, n>>

\* new THREE.Mesh(wallGeoV, wallMat) and new THREE.Mesh(wallGeoH, wallMat)
WallMeshes(infos, group) ==
    Computed([n \in 1..Len(infos) |->
            Mesh(IF infos[n].type = "V" THEN "wallGeoV" ELSE "wallGeoH", group, At(infos[n], 0))])

\* one panel per cell, x in the outer loop
PanelMeshes(gSize, group) ==
    Computed([n \in 1..(gSize * gSize) |->
            Mesh("lightPanelGeo", group, <<"panel", (n - 1) \div gSize, (n - 1) % gSize, 0>>)])

\* createNormalLine twice per wall, along the normal and against it
NormalLines(infos, group) ==
    Computed([n \in 1..(2 * Len(infos)) |->
            Object3D("Line", group, At(infos[(n + 1) \div 2], IF n % 2 = 1 THEN 1 ELSE -1))])

\* if (rnd(wallSeed) > 0.05) continue
HasOutlet(info, seed) == (seed + (info.x * 1000) + (info.z * 2000)) \in OutletRolls

\* if (rnd(phoneSeed) > 0.005) continue
HasPhone(info, seed) ==
    (seed + (info.x * 3000) + (info.z * 4000) + 12345) \in PhoneRolls

\* (mutant) outlets are placed without looking at outletModel
OutletWallsUnchecked(infos, seed, res) ==
    LET Rolled(info) == HasOutlet(info, seed)
    IN  SelectSeq(infos, Rolled)

\* the walls that get an outlet, or none when the model is not loaded
OutletWalls(infos, seed, res) ==
    LET Rolled(info) == HasOutlet(info, seed)
    IN  IF res.outletModel THEN SelectSeq(infos, Rolled) ELSE << >>

\* (mutant) phones are placed without looking at phonesAllowed
PhoneWallsAnywhere(infos, seed, res, cx, cz) ==
    LET Rolled(info) == HasPhone(info, seed)
    IN  IF res.wallPhoneModel THEN SelectSeq(infos, Rolled) ELSE << >>

\* the walls that get a phone: the model is loaded and the chunk is at least
\* PHONE_EXCLUSION_DIST chunks from spawn
PhoneWalls(infos, seed, res, cx, cz) ==
    LET Rolled(info) == HasPhone(info, seed)
        chunkDistFromSpawn == IF Abs(cx) >= Abs(cz) THEN Abs(cx) ELSE Abs(cz)
    IN  IF res.wallPhoneModel /\ chunkDistFromSpawn >= PHONE_EXCLUSION_DIST
        THEN SelectSeq(infos, Rolled)
        ELSE << >>

\* for each wall of infos an object of class a followed by one of class b
Pairs(infos, a, b, group) ==
    Computed([n \in 1..(2 * Len(infos)) |->
            Object3D(IF n % 2 = 1 THEN a ELSE b, group, At(infos[(n + 1) \div 2], 0))])

Each(infos, class, group) ==
    Computed([n \in 1..Len(infos) |-> Object3D(class, group, At(infos[n], 0))])

\* the group generateChunk returns: its children in the order of group.add,
\* and userData
Group(group, infos, outlets, phones, gSize) ==
    [serial |-> group[1], cx |-> group[2], cz |-> group[3],
     children |->
        << Mesh("floorGeo", group, <<"floor", 0, 0, 0>>),
           Mesh("ceilingGeo", group, <<"ceiling", 0, 0, 0>>) >>
        \o WallMeshes(infos, group)
        \o PanelMeshes(gSize, group)
        \o NormalLines(infos, group)
        \o Pairs(outlets, "outlet", "BoxHelper", group)
        \o Pairs(phones, "phone", "BoxHelper", group),
     userData |->
        [phonePositions |-> Each(phones, "Vector3", group),
         phoneMeshes |-> Each(phones, "phone", group),
         border |-> Object3D("border", group, <<"border", 0, 0, 0>>)]]

\* what generateChunk pushes on the lists it is handed, and the group it adds
\* to the scene with its border
Pushed(w, g, infos, outlets, phones, gSize) ==
    [w EXCEPT
        !.walls = @ \o WallMeshes(infos, <<g.serial, g.cx, g.cz>>),
        !.lightPanels = @ \o PanelMeshes(gSize, <<g.serial, g.cx, g.cz>>),
        !.debugNormals = @ \o NormalLines(infos, <<g.serial, g.cx, g.cz>>)
                           \o Pairs(outlets, "BoxHelper", "AxesHelper", <<g.serial, g.cx, g.cz>>)
                           \o Pairs(phones, "BoxHelper", "AxesHelper", <<g.serial, g.cx, g.cz>>),
        !.phonePositions = @ \o g.userData.phonePositions,
        !.phoneMeshes = @ \o g.userData.phoneMeshes,
        !.scene = @ \o <<g.serial, -g.serial>>,
        !.chunkBorders = Append(@, g.userData.border),
        !.created = g.serial,
        !.group = g]

Furnished(w, cx, cz, infos, seed, gSize) ==
    Pushed(w,
           Group(<<w.created + 1, cx, cz>>, infos,
                 OutletWalls(infos, seed, w.resources),
                 PhoneWalls(infos, seed, w.resources, cx, cz), gSize),
           infos,
           OutletWalls(infos, seed, w.resources),
           PhoneWalls(infos, seed, w.resources, cx, cz), gSize)

\* (mutant) the grid depends on how many groups were created before
generateChunkAged(cx, cz, w) ==
    Furnished(w, cx, cz,
              wallsInChunk(WallGrids[IF w.created % 2 = 0 THEN "insertion" ELSE "binary"][<<cx, cz>>], GSize),
              TrigSeed(cx, cz), GSize)

\* generateChunk(cx, cz, ...): the world w with the new group in w.group
generateChunk(cx, cz, w) ==
    Furnished(w, cx, cz, wallsInChunk(WallGrids[w.engine][<<cx, cz>>], GSize),
              TrigSeed(cx, cz), GSize)

(***************************************************************************)
(* updateChunks.  chunks is the Map as the sequence of its entries         *)
(* [key, obj] in insertion order, the order Map iteration follows.         *)
(***************************************************************************)
\* const k = `${x},${z}`
Key(x, z) == <<x, z>>

\* chunks.has(k)
Has(map, k) == \E n \in 1..Len(map) : map[n].key = k

\* chunks.set(k, obj): a present key keeps its place
MapSet(map, k, obj) ==
    IF Has(map, k)
    THEN Computed([n \in 1..Len(map) |->
            IF map[n].key = k THEN [key |-> k, obj |-> obj] ELSE map[n]])
    ELSE Append(map, [key |-> k, obj |-> obj])

\* chunks.delete(key) of the n-th entry
MapDelete(map, n) ==
    Computed([m \in 1..(Len(map) - 1) |-> IF m < n THEN map[m] ELSE map[m + 1]])

\* (mutant) only chunks the frustum intersects are loaded
IsActiveInViewOnly(isNearby, isPotentiallyVisible, inPreloadRange) ==
    isPotentiallyVisible /\ inPreloadRange

\* (mutant) every chunk of the preload range is loaded
IsActiveInRange(isNearby, isPotentiallyVisible, inPreloadRange) ==
    isNearby \/ inPreloadRange

\* if (isNearby || (isPotentiallyVisible && inPreloadRange))
IsActive(isNearby, isPotentiallyVisible, inPreloadRange) ==
    isNearby \/ (isPotentiallyVisible /\ inPreloadRange)

\* (mutant) the set keeps the last key only
AddKeyLast(activeKeys, k) == {k}

\* activeKeys.add(k)
AddKey(activeKeys, k) == activeKeys \cup {k}

\* (mutant) a chunk is generated whether or not the map has it
NeedsChunkAlways(map, k) == TRUE

\* if (!chunks.has(k))
NeedsChunk(map, k) == ~Has(map, k)

\* chunks.set(k, generateChunk(x, z, ...)), w2 being the world generateChunk left
Stored(w2, k) ==
    [w2 EXCEPT !.chunks = MapSet(@, k, w2.group),
               !.generated = Append(@, k)]

\* if (!chunks.has(k)) chunks.set(k, generateChunk(x, z, ...))
Load(w, x, z) ==
    IF NeedsChunk(w.chunks, Key(x, z))
    THEN Stored(generateChunk(x, z, w), Key(x, z))
    ELSE w

\* the body of the scan loop for chunk (x, z)
Scan(w, x, z, px, pz) ==
    IF IsActive(isChunkNearby(x, z, px, pz),
                isChunkPotentiallyVisible(w.frustum, x, z),
                isChunkInPreloadRange(x, z, px, pz))
    THEN Load([w EXCEPT !.activeKeys = AddKey(@, Key(x, z))], x, z)
    ELSE w

\* for (let z = pz - PRELOAD_DIST; z <= pz + PRELOAD_DIST; z++), from z on
RECURSIVE ScanZ(_, _, _, _, _)
ScanZThen(next, x, z, px, pz) ==
    IF Evaluated(next.created) THEN ScanZ(next, x, z + 1, px, pz) ELSE next

ScanZ(w, x, z, px, pz) ==
    IF z > pz + PRELOAD_DIST THEN w
    ELSE ScanZThen(Scan(w, x, z, px, pz), x, z, px, pz)

\* for (let x = px - PRELOAD_DIST; x <= px + PRELOAD_DIST; x++), from x on
RECURSIVE ScanX(_, _, _, _)
ScanXThen(next, x, px, pz) ==
    IF Evaluated(next.created) THEN ScanX(next, x + 1, px, pz) ELSE next

ScanX(w, x, px, pz) ==
    IF x > px + PRELOAD_DIST THEN w
    ELSE ScanXThen(ScanZ(w, x, pz - PRELOAD_DIST, px, pz), x, px, pz)

\* (mutant) only vertical walls are recognised
IsWallChildV(child) == child.isMesh /\ child.geometry = "wallGeoV"

\* child.isMesh && child.geometry === resources.wallGeoV ||
\* child.geometry === resources.wallGeoH
IsWallChild(child) ==
    (child.isMesh /\ child.geometry = "wallGeoV") \/ child.geometry = "wallGeoH"

\* child.isMesh && child.geometry === resources.lightPanelGeo
IsPanelChild(child) == child.isMesh /\ child.geometry = "lightPanelGeo"

\* (mutant) the chunk being evicted is not skipped
KeptAll(k, key) == TRUE

\* if (k !== key)
Kept(k, key) == k # key

\* c.children.forEach(child => { if (...) list.push(child) }) for the list of kind
Pushes(c, kind) ==
    IF kind = "walls" THEN SelectSeq(c.children, IsWallChild)
    ELSE SelectSeq(c.children, IsPanelChild)

\* for (const [k, c] of chunks.entries()) if (k !== key) c.children.forEach(...):
\* what the entries lo..hi push, those of the first half of the range before
\* those of the second
RECURSIVE Rebuilt(_, _, _, _, _)
Rebuilt(map, key, kind, lo, hi) ==
    IF lo > hi THEN << >>
    ELSE IF lo = hi
         THEN (IF Kept(map[lo].key, key) THEN Pushes(map[lo].obj, kind) ELSE << >>)
         ELSE Rebuilt(map, key, kind, lo, (lo + hi) \div 2)
              \o Rebuilt(map, key, kind, ((lo + hi) \div 2) + 1, hi)

\* list.indexOf(o), counting from 1, or 0
IndexOf(list, o) ==
    IF \E n \in 1..Len(list) : list[n] = o
    THEN CHOOSE n \in 1..Len(list) :
            list[n] = o /\ \A m \in 1..(n - 1) : list[m] # o
    ELSE 0

\* if (idx !== -1) list.splice(idx, 1)
SpliceAt(list, idx) ==
    IF idx = 0 THEN list
    ELSE Computed([m \in 1..(Len(list) - 1) |-> IF m < idx THEN list[m] ELSE list[m + 1]])

\* (mutant) the evicted chunk's objects stay in the list
RemoveNone(list, objs, n) == list

\* for (const o of objs) { remove o from list }
RECURSIVE RemoveEach(_, _, _)
RemoveEach(list, objs, n) ==
    IF n > Len(objs) THEN list
    ELSE RemoveEach(SpliceAt(list, IndexOf(list, objs[n])), objs, n + 1)

\* scene.remove(obj) and scene.remove(obj.userData.border): groups are in the
\* scene under their serial, borders under its negative
SceneRemove(sc, id) ==
    LET Other(o) == o # id
    IN  SelectSeq(sc, Other)

\* the body of the eviction loop for the entry [key, obj] = w.chunks[n].
\* walls.length = 0 and lightPanels.length = 0 make every eviction write
\* both lists anew, so the lists the call leaves are those of its last
\* eviction: rebuild keeps the map and the key of that one
Evicted(w, n) ==
    [w EXCEPT
        !.scene = SceneRemove(SceneRemove(@, w.chunks[n].obj.serial),
                              -w.chunks[n].obj.serial),
        !.rebuild = <<[map |-> w.chunks, key |-> w.chunks[n].key]>>,
        !.phonePositions = RemoveEach(@, w.chunks[n].obj.userData.phonePositions, 1),
        !.phoneMeshes = RemoveEach(@, w.chunks[n].obj.userData.phoneMeshes, 1),
        !.chunkBorders = RemoveEach(@, <<w.chunks[n].obj.userData.border>>, 1),
        !.chunks = MapDelete(@, n),
        !.evicted = Append(@, [key |-> w.chunks[n].key,
                               serial |-> w.chunks[n].obj.serial,
                               walls |-> Len(Pushes(w.chunks[n].obj, "walls")),
                               phones |-> Len(w.chunks[n].obj.userData.phonePositions)])]

\* (mutant) a far chunk stays while the frustum intersects it
StaleOutOfView(w, key) ==
    key \notin w.activeKeys /\ ~isChunkPotentiallyVisible(w.frustum, key[1], key[2])

\* if (!activeKeys.has(key))
Stale(w, key) == key \notin w.activeKeys

\* the place of key in the map
EntryOf(map, key) == CHOOSE n \in 1..Len(map) : map[n].key = key

\* one iteration of for (const [key, obj] of chunks.entries())
EvictEntry(w, key) ==
    IF Stale(w, key) THEN Evicted(w, EntryOf(w.chunks, key)) ELSE w

\* the iterations for the entries keys[lo..hi], in order: those of the first
\* half of the range, then those of the second.  keys are the keys of the map
\* as the loop finds it; an entry deleted is the one the iteration is at, so
\* the iteration visits every one of them once
RECURSIVE EvictRange(_, _, _, _)
EvictRangeThen(next, keys, lo, hi) ==
    IF Evaluated(next.created) THEN EvictRange(next, keys, lo, hi) ELSE next

EvictRange(w, keys, lo, hi) ==
    IF lo > hi THEN w
    ELSE IF lo = hi THEN EvictEntry(w, keys[lo])
    ELSE EvictRangeThen(EvictRange(w, keys, lo, (lo + hi) \div 2),
                        keys, ((lo + hi) \div 2) + 1, hi)

Keys(map) == Computed([n \in 1..Len(map) |-> map[n].key])

\* the two lists as the last eviction of the loop left them
Relisted(w) ==
    IF w.rebuild = << >> THEN w
    ELSE [w EXCEPT
            !.walls = Rebuilt(w.rebuild[1].map, w.rebuild[1].key, "walls",
                              1, Len(w.rebuild[1].map)),
            !.lightPanels = Rebuilt(w.rebuild[1].map, w.rebuild[1].key, "panels",
                                    1, Len(w.rebuild[1].map))]

Evict(w) == Relisted(EvictRange(w, Keys(w.chunks), 1, Len(w.chunks)))

\* updateChunks(camera, scene, chunks, resources, ...): w holds the objects
\* the call is handed and, for the time of the call, its locals
updateChunks(w, cam, view) ==
    Evict(ScanX([w EXCEPT !.frustum = setFromProjectionMatrix(view),
                          !.activeKeys = {},
                          !.rebuild = << >>,
                          !.generated = << >>,
                          !.evicted = << >>],
                PlayerChunk(cam.x) - PRELOAD_DIST,
                PlayerChunk(cam.x), PlayerChunk(cam.z)))

(***************************************************************************)
(* Boxes and wall meshes in world space.  Lengths of collision and line of *)
(* sight are in thousandths of a world unit, so that half the wall         *)
(* thickness 0.15 and the half lengths 4.155 and 3.995 are integers.  A    *)
(* vector is <<x, y, z>>, a Box3 is [min, max].                            *)
(***************************************************************************)
Milli(n) == n * 1000

PLAYER_RADIUS == 500
\* the height 1.8 of the agent's box
PlayerHeight == 1800

wallThickness == 300
wallHeight == 3000
wallLengthV == Milli(CHUNK_SIZE \div GSize) + 310
wallLengthH == Milli(CHUNK_SIZE \div GSize) - 10
\* wall.position.y
WallY == 1500

\* the side of a box geometry wider than the agent, for a wall that can
\* enclose the agent's box (the walls the game builds are too thin to)
BlockSide == 2000

Max(a, b) == IF a >= b THEN a ELSE b
Min(a, b) == IF a <= b THEN a ELSE b

\* the size of the BoxGeometry a mesh was built with
GeometrySize(geometry) ==
    CASE geometry = "wallGeoV" -> <<wallThickness, wallHeight, wallLengthV>>
      [] geometry = "wallGeoH" -> <<wallLengthH, wallHeight, wallThickness>>
      [] geometry = "blockGeo" -> <<BlockSide, wallHeight, BlockSide>>

\* wall.position, set when generateChunk places the wall of slot <<i, j>>
WallPosition(at) ==
    LET cellSize == CHUNK_SIZE \div GSize
        half == CHUNK_SIZE \div 2
        along == Milli(((at[3] * cellSize) - half) + (cellSize \div 2))
        across == Milli((at[2] * cellSize) - half)
    IN  IF at[1] = "V" THEN <<across, WallY, along>> ELSE <<along, WallY, across>>

\* wall.getWorldPosition: group.position is (cx * CHUNK_SIZE, 0, cz * CHUNK_SIZE)
getWorldPosition(wall) ==
    LET p == WallPosition(wall.at)
    IN  <<Milli(wall.group[2] * CHUNK_SIZE) + p[1], p[2],
          Milli(wall.group[3] * CHUNK_SIZE) + p[3]>>

\* new THREE.Box3().setFromCenterAndSize(center, size): min and max are
\* copies, the box does not follow center afterwards
setFromCenterAndSize(center, size) ==
    [min |-> [k \in 1..3 |-> center[k] - (size[k] \div 2)],
     max |-> [k \in 1..3 |-> center[k] + (size[k] \div 2)]]

\* new THREE.Box3().setFromObject(wall), the world box of an unrotated box mesh
setFromObject(wall) == setFromCenterAndSize(getWorldPosition(wall), GeometrySize(wall.geometry))

\* the wall meshes among the children of a chunk's group: the geometry and
\* the world position of each
WallSlots(obj) ==
    {<<obj.children[m].geometry, getWorldPosition(obj.children[m])>> :
        m \in {c \in 1..Len(obj.children) : IsWallChild(obj.children[c])}}

\* Box3.intersectsBox: boxes that only touch intersect
BoxIntersectsBox(a, b) ==
    \A k \in 1..3 : ~(b.max[k] < a.min[k] \/ b.min[k] > a.max[k])

\* Box3.intersect, then Box3.getSize: the zero vector for an empty box
OverlapSize(a, b) ==
    LET lo == [k \in 1..3 |-> Max(a.min[k], b.min[k])]
        hi == [k \in 1..3 |-> Min(a.max[k], b.max[k])]
    IN  IF \E k \in 1..3 : hi[k] < lo[k] THEN <<0, 0, 0>>
        ELSE [k \in 1..3 |-> hi[k] - lo[k]]

PlayerSize == <<PLAYER_RADIUS * 2, PlayerHeight, PLAYER_RADIUS * 2>>

\* (mutant) the push goes towards the wall's centre
AwayReversed(t, w) == IF t > w THEN -1 ELSE 1

\* (target.x > wPos.x ? 1 : -1)
Away(t, w) == IF t > w THEN 1 ELSE -1

\* (mutant) equal extents are pushed along X
AlongXOrEqual(size) == size[1] <= size[3]

\* size.x < size.z
AlongX(size) == size[1] < size[3]

\* the box the loop tests against the walls: pBox, built before the loop
TestedBox(box, t) == box

\* (mutant) the push that is not along X goes along Y
CorrectedAlongY(t, box, wall) ==
    LET wBox == setFromObject(wall)
        hit == BoxIntersectsBox(TestedBox(box, t), wBox)
        size == OverlapSize(TestedBox(box, t), wBox)
        wPos == getWorldPosition(wall)
        after == IF ~hit THEN t
                 ELSE IF AlongX(size)
                      THEN [t EXCEPT ![1] = @ + (Away(t[1], wPos[1]) * size[1])]
                      ELSE [t EXCEPT ![2] = @ + (Away(t[2], wPos[2]) * size[2])]
    IN  [hit |-> hit, size |-> IF hit THEN size ELSE <<0, 0, 0>>,
         before |-> t, after |-> after]

\* the body of the loop for walls[i]: the position and what happened
Corrected(t, box, wall) ==
    LET wBox == setFromObject(wall)
        hit == BoxIntersectsBox(TestedBox(box, t), wBox)
        size == OverlapSize(TestedBox(box, t), wBox)
        wPos == getWorldPosition(wall)
        after == IF ~hit THEN t
                 ELSE IF AlongX(size)
                      THEN [t EXCEPT ![1] = @ + (Away(t[1], wPos[1]) * size[1])]
                      ELSE [t EXCEPT ![3] = @ + (Away(t[3], wPos[3]) * size[3])]
    IN  [hit |-> hit, size |-> IF hit THEN size ELSE <<0, 0, 0>>,
         before |-> t, after |-> after]

(***************************************************************************)
(* hasLineOfSight.  A ray parameter t is kept as the fraction <<n, d>>,    *)
(* d > 0, of its ratio to rayLength: the code compares the parameters with *)
(* each other, with 0 and with rayLength only, and rayLength is positive   *)
(* past the early return.  Points are <<x, z>>.                            *)
(***************************************************************************)
Frac(n, d) == IF d < 0 THEN <<-n, -d>> ELSE <<n, d>>
FracLess(a, b) == (a[1] * b[2]) < (b[1] * a[2])
FracMin(a, b) == IF FracLess(b, a) THEN b ELSE a
FracMax(a, b) == IF FracLess(a, b) THEN b ELSE a

\* rayLength < 0.01, squared
TooShort(dirX, dirZ) == ((dirX * dirX) + (dirZ * dirZ)) < (10 * 10)

\* Math.abs(norm) > 0.0001 for the component dir of a direction whose other
\* component is other: 10^8 * dir^2 > dir^2 + other^2, which for whole
\* thousandths below 20000 is 10^4 * |dir| > |other|
AboveEpsilon(dir, other) == (10000 * Abs(dir)) > Abs(other)

\* tMin = Math.max(tMin, tNear); tMax = Math.min(tMax, tFar)
Clipped(t, lo, hi, from, dir) ==
    LET t1 == Frac(lo - from, dir)
        t2 == Frac(hi - from, dir)
    IN  [min |-> FracMax(t.min, FracMin(t1, t2)),
         max |-> FracMin(t.max, FracMax(t1, t2))]

\* tMin <= tMax && tMin < rayLength && tMax > 0
Blocked(t) ==
    /\ ~FracLess(t.max, t.min)
    /\ FracLess(t.min, <<1, 1>>)
    /\ FracLess(<<0, 1>>, t.max)

\* the body of the loop for one wall: does it make the function return false
WallBlocks(from, to, wall) ==
    LET dirX == to[1] - from[1]
        dirZ == to[2] - from[2]
        wBox == setFromObject(wall)
        t0 == [min |-> <<0, 1>>, max |-> <<1, 1>>]
        clipX == AboveEpsilon(dirX, dirZ)
        clipZ == AboveEpsilon(dirZ, dirX)
        tX == IF clipX THEN Clipped(t0, wBox.min[1], wBox.max[1], from[1], dirX) ELSE t0
        tZ == IF clipZ THEN Clipped(tX, wBox.min[3], wBox.max[3], from[2], dirZ) ELSE tX
    IN  IF ~clipX /\ (from[1] < wBox.min[1] \/ from[1] > wBox.max[1]) THEN FALSE
        ELSE IF ~clipZ /\ (from[2] < wBox.min[3] \/ from[2] > wBox.max[3]) THEN FALSE
        ELSE Blocked(tZ)

\* (mutant) a ray shorter than 0.01 is reported blocked
TrivialSightBlocked == FALSE

\* if (rayLength < 0.01) return true
TrivialSight == TRUE

hasLineOfSight(from, to, ws) ==
    IF TooShort(to[1] - from[1], to[2] - from[2]) THEN TrivialSight
    ELSE ~(\E n \in 1..Len(ws) : WallBlocks(from, to, ws[n]))

(***************************************************************************)
(* The bacteria entity (entity module of src/unnamed/part_003).  Times are *)
(* in ms, positions <<x, z>> in thousandths.  The sanity levels of the     *)
(* model are 0, 65 and 66: for the first two 1 - sanityFactor, which is    *)
(* sanity / 65, is 0 or 1 and every delay, duration and distance is whole. *)
(* A value drawn with Math.random() is the least value or the middle of    *)
(* its range (draw 0 or 1, in halves).                                     *)
(***************************************************************************)
ENTITY_DISAPPEAR_DISTANCE == 8
\* if (effectiveSanity > 65)
SanityThreshold == 65
\* bacteriaEntity.userData.halfWidth || 1.0
EntityHalfWidth == 1000
\* const padding = 0.3
EntityPadding == 300
maxAttempts == 20

Sanities == {0, SanityThreshold, SanityThreshold + 1}
Draws == {0, 1}

\* lo + Math.random() * (hi - lo)
Drawn(lo, hi, draw) == lo + ((draw * (hi - lo)) \div 2)

\* 1 - sanityFactor, as a multiple of 1 / SanityThreshold
Calm(sanity) == sanity

\* minDelay + Math.random() * (maxDelay - minDelay)
SpawnDelay(sanity, draw) ==
    Drawn(500 + ((Calm(sanity) * 2500) \div SanityThreshold),
          1500 + ((Calm(sanity) * 4500) \div SanityThreshold), draw)

\* minDuration + Math.random() * (maxDuration - minDuration)
VisibleDuration(sanity, draw) ==
    Drawn(500 + (((SanityThreshold - Calm(sanity)) * 1000) \div SanityThreshold),
          1500 + (((SanityThreshold - Calm(sanity)) * 1500) \div SanityThreshold), draw)

minDist(sanity) ==
    Milli(ENTITY_DISAPPEAR_DISTANCE + 1) + ((Calm(sanity) * 16000) \div SanityThreshold)
maxDist(sanity) ==
    Milli(ENTITY_DISAPPEAR_DISTANCE + 7) + ((Calm(sanity) * 25000) \div SanityThreshold)

\* playerDir * distance for the draws of angleOffset and distance the model
\* makes, the camera looking along -z
SpawnOffsets ==
    {<<0, -9000>>, <<-1500, -9000>>, <<0, -12000>>, <<0, -25000>>, <<0, -30000>>}

\* the offset is within maxAngleOffset / 2 = 0.15 pi of -z (tan = 0.5095) and
\* its length within minDist..maxDist
InSpawnFan(o, sanity) ==
    /\ o[2] < 0
    /\ (10000 * Abs(o[1])) <= (5095 * Abs(o[2]))
    /\ (minDist(sanity) * minDist(sanity)) <= ((o[1] * o[1]) + (o[2] * o[2]))
    /\ ((o[1] * o[1]) + (o[2] * o[2])) <= (maxDist(sanity) * maxDist(sanity))

\* the positions <<spawnX, spawnZ>> an attempt can draw
SpawnPoints(p, sanity) ==
    {<<p[1] + o[1], p[2] + o[2]>> : o \in {q \in SpawnOffsets : InSpawnFan(q, sanity)}}

\* (mutant) the entity's square is not tested against the walls
entityCollidesNever(x, z, entityHalfWidth, ws) == FALSE

entityCollidesWithWalls(x, z, entityHalfWidth, ws) ==
    LET halfSize == entityHalfWidth + EntityPadding
    IN  \E n \in 1..Len(ws) :
            LET wBox == setFromObject(ws[n])
            IN  /\ x + halfSize > wBox.min[1] /\ x - halfSize < wBox.max[1]
                /\ z + halfSize > wBox.min[3] /\ z - halfSize < wBox.max[3]

\* the attempt at point c does not continue
AttemptPasses(p, c, ws) ==
    /\ hasLineOfSight(p, c, ws)
    /\ ~entityCollidesWithWalls(c[1], c[2], EntityHalfWidth, ws)

NoSpawn == << >>

\* for (let attempt = 0; attempt < maxAttempts; attempt++): the positions
\* the loop can return true at, and NoSpawn when it can return false
RECURSIVE SpawnOutcomes(_, _, _)
SpawnOutcomes(attempt, points, passing) ==
    IF attempt >= maxAttempts THEN {NoSpawn}
    ELSE passing \cup (IF points \ passing # {}
                      THEN SpawnOutcomes(attempt + 1, points, passing)
                      ELSE {})

\* what spawnBacteriaEntity(minDist, maxDist, ..., walls) can do
spawnBacteriaEntity(p, sanity, ws) ==
    LET points == SpawnPoints(p, sanity)
    IN  SpawnOutcomes(0, points, {c \in points : AttemptPasses(p, c, ws)})

\* bacteriaEntity.position.set(...); bacteriaVisible = true
Spawned(b, outcome) ==
    IF outcome = NoSpawn THEN b
    ELSE [b EXCEPT !.position = outcome, !.visible = TRUE]

hideBacteriaEntity(b) == [b EXCEPT !.visible = FALSE]

\* distanceToPlayer < ENTITY_DISAPPEAR_DISTANCE, squared
TooClose(p, e) ==
    (((p[1] - e[1]) * (p[1] - e[1])) + ((p[2] - e[2]) * (p[2] - e[2])))
        < (Milli(ENTITY_DISAPPEAR_DISTANCE) * Milli(ENTITY_DISAPPEAR_DISTANCE))

\* (mutant) the distance to the player is not tested
updateBacteriaDistortionFar(b, p, ws) ==
    IF ~b.visible THEN b
    ELSE IF ~hasLineOfSight(p, b.position, ws) THEN hideBacteriaEntity(b)
    ELSE b

updateBacteriaDistortion(b, p, ws) ==
    IF ~b.visible THEN b
    ELSE IF TooClose(p, b.position) THEN hideBacteriaEntity(b)
    ELSE IF ~hasLineOfSight(p, b.position, ws) THEN hideBacteriaEntity(b)
    ELSE b

\* updateBacteriaEntity at time t with the camera at p: the module state it
\* leaves.  ready is bacteriaModel && camera && isStarted, lucky is
\* Math.random() < spawnChance, outcome is what spawnBacteriaEntity does
updateBacteriaEntity(b, t, p, sanity, ready, draw, lucky, outcome, ws) ==
    IF ~ready THEN b
    ELSE IF sanity > SanityThreshold
         THEN IF b.visible THEN hideBacteriaEntity(b) ELSE b
    ELSE IF b.visible
         THEN IF t - b.spawnStartTime >= b.visibleDuration
              THEN [hideBacteriaEntity(b) EXCEPT !.nextSpawnDelay = SpawnDelay(sanity, draw),
                                                !.lastSpawnTime = t]
              ELSE updateBacteriaDistortion(b, p, ws)
    ELSE IF t - b.lastSpawnTime >= b.nextSpawnDelay
         THEN IF lucky
              THEN [Spawned(b, outcome) EXCEPT !.visibleDuration = VisibleDuration(sanity, draw),
                                               !.spawnStartTime = t]
              ELSE [b EXCEPT !.lastSpawnTime = t, !.nextSpawnDelay = Drawn(300, 1000, draw)]
    ELSE b

\* the call reaches spawnBacteriaEntity
SpawnDue(b, t, sanity, ready, lucky) ==
    /\ ready /\ sanity <= SanityThreshold /\ ~b.visible
    /\ t - b.lastSpawnTime >= b.nextSpawnDelay
    /\ lucky

\* why a call that found the entity visible hides it
HideCause(b, t, p, sanity, ws) ==
    IF sanity > SanityThreshold THEN "sanity"
    ELSE IF t - b.spawnStartTime >= b.visibleDuration THEN "expiry"
    ELSE IF TooClose(p, b.position) THEN "distance"
    ELSE "sight"

NoEarlier == [set |-> FALSE]

NoBox == [min |-> <<0, 0, 0>>, max |-> <<0, 0, 0>>]

\* no call of handleCollision or hasLineOfSight made
CollideIdle ==
    /\ cpc = "idle"
    /\ proposed = <<0, 0, 0>>
    /\ target = <<0, 0, 0>>
    /\ pBox = NoBox
    /\ wallIndex = 0
    /\ pushes = << >>
    /\ earlier = NoEarlier

NoSight == [calls |-> 0]

QueryIdle ==
    /\ CollideIdle
    /\ sight = NoSight

\* the repair passes are not running
RepairIdle ==
    /\ rpc = "idle"
    /\ rsize = 0
    /\ rgrid = [h |-> << >>, v |-> << >>]
    /\ rcell = 0
    /\ rcount = 0

\* let bacteriaVisible = false; let bacteriaLastSpawnTime = 0; ...
BacteriaReset ==
    [visible |-> FALSE, position |-> <<0, 0>>, lastSpawnTime |-> 0,
     nextSpawnDelay |-> 2000, visibleDuration |-> 0, spawnStartTime |-> 0]

NoUpdate == [calls |-> 0]
NeverHidden == [set |-> FALSE]

\* the entity module as loaded, no updateBacteriaEntity call made
EntityIdle ==
    /\ now = 0
    /\ player = <<0, 0>>
    /\ bacteria = BacteriaReset
    /\ lastUpdate = NoUpdate
    /\ hidden = NeverHidden

NoReads == [walls |-> {}, lightPanels |-> {}, phonePositions |-> {}]

\* the groups, by serial, that the objects of a list belong to
SerialsOf(list) == {list[n].group[1] : n \in 1..Len(list)}

Spawn == [x |-> 0, z |-> 0, look |-> "-z"]

StreamInit(outlet, phone) ==
    /\ camera = Spawn
    /\ matrixWorldInverse = Spawn
    /\ resources = [outletModel |-> outlet, wallPhoneModel |-> phone]
    /\ chunks = << >>
    /\ walls = << >>
    /\ lightPanels = << >>
    /\ phonePositions = << >>
    /\ phoneMeshes = << >>
    /\ chunkBorders = << >>
    /\ debugNormals = << >>
    /\ scene = << >>
    /\ created = 0
    /\ pc = "start"
    /\ frames = 0
    /\ lastCall = [calls |-> 0, position |-> <<0, 0>>, view |-> Spawn,
                   repeat |-> FALSE, generated |-> << >>, evicted |-> << >>]
    /\ unloaded = {}
    /\ former = << >>
    /\ reads = NoReads

(***************************************************************************)
(* SpecGrid: generateWallGrid(cx, cz, GSize) run phase by phase.           *)
(***************************************************************************)
GridCoords == (-MaxCoord)..MaxCoord

NoGrid == [h |-> << >>, v |-> << >>]
NoCall == [set |-> FALSE]

\* no call of generateWallGrid in progress
GridIdle ==
    /\ gpc = "idle"
    /\ gargs = [cx |-> 0, cz |-> 0]
    /\ grid = [h |-> << >>, v |-> << >>, s |-> <<0, 0, 0>>]
    /\ gcell = 0
    /\ gpass1 = NoGrid
    /\ gret = NoGrid
    /\ gprev = NoCall

InitGrid ==
    /\ engine \in Engines
    /\ GridIdle
    /\ StreamInit(FALSE, FALSE)
    /\ QueryIdle
    /\ RepairIdle
    /\ EntityIdle

\* a caller invokes generateWallGrid(cx, cz, gSize): seed and closure
GridCall(cx, cz) ==
    /\ gpc \in {"idle", "done"}
    /\ gargs' = [cx |-> cx, cz |-> cz]
    /\ grid' = [EmptyGrid(GSize, <<0, 0, 0>>) EXCEPT !.s = NewStream(cx, cz, grid.s)]
    /\ gpc' = "fill"
    /\ gcell' = 0
    /\ gpass1' = NoGrid
    /\ gret' = NoGrid
    /\ gprev' = IF gprev.set /\ <<cx, cz>> # <<gprev.cx, gprev.cz>>
                THEN [gprev EXCEPT !.between = TRUE]
                ELSE gprev
    /\ UNCHANGED engine
    /\ UNCHANGED streamVars
    /\ UNCHANGED queryVars
    /\ UNCHANGED repairVars
    /\ UNCHANGED entityVars

\* the caller keeps the grid it was returned, to compare it with a later one;
\* one call is kept per run, any one
GridRemember ==
    /\ gpc = "done"
    /\ ~gprev.set
    /\ gprev' = [set |-> TRUE, cx |-> gargs.cx, cz |-> gargs.cz, ret |-> gret,
                 between |-> FALSE]
    /\ UNCHANGED <<engine, gpc, gargs, grid, gcell, gpass1, gret>>
    /\ UNCHANGED streamVars
    /\ UNCHANGED queryVars
    /\ UNCHANGED repairVars
    /\ UNCHANGED entityVars

\* the loops that draw every slot
GridFill ==
    /\ gpc = "fill"
    /\ grid' = FillFrom(grid, 0, GSize)
    /\ gpc' = "edges"
    /\ UNCHANGED <<engine, gargs, gcell, gpass1, gret, gprev>>
    /\ UNCHANGED streamVars
    /\ UNCHANGED queryVars
    /\ UNCHANGED repairVars
    /\ UNCHANGED entityVars

\* the loop that opens the midpoint slot of the four chunk edges
GridOpenEdges ==
    /\ gpc = "edges"
    /\ grid' = OpenEdges(grid, GSize)
    /\ gpc' = "open"
    /\ gcell' = 0
    /\ UNCHANGED <<engine, gargs, gpass1, gret, gprev>>
    /\ UNCHANGED streamVars
    /\ UNCHANGED queryVars
    /\ UNCHANGED repairVars
    /\ UNCHANGED entityVars

\* one cell of the first repair pass
GridEnsureOpen ==
    /\ gpc = "open"
    /\ gcell < GSize * GSize
    /\ grid' = EnsureOpenCell(grid, gcell \div GSize, gcell % GSize, engine)
    /\ gcell' = gcell + 1
    /\ UNCHANGED <<engine, gpc, gargs, gpass1, gret, gprev>>
    /\ UNCHANGED streamVars
    /\ UNCHANGED queryVars
    /\ UNCHANGED repairVars
    /\ UNCHANGED entityVars

\* the first repair pass has visited every cell
GridPassOneDone ==
    /\ gpc = "open"
    /\ gcell = GSize * GSize
    /\ gpass1' = [h |-> grid.h, v |-> grid.v]
    /\ gpc' = "limit"
    /\ gcell' = 0
    /\ UNCHANGED <<engine, gargs, grid, gret, gprev>>
    /\ UNCHANGED streamVars
    /\ UNCHANGED queryVars
    /\ UNCHANGED repairVars
    /\ UNCHANGED entityVars

\* one cell of the second repair pass
GridLimitWalls ==
    /\ gpc = "limit"
    /\ gcell < GSize * GSize
    /\ grid' = LimitWallsCell(grid, gcell \div GSize, gcell % GSize, engine)
    /\ gcell' = gcell + 1
    /\ UNCHANGED <<engine, gpc, gargs, gpass1, gret, gprev>>
    /\ UNCHANGED streamVars
    /\ UNCHANGED queryVars
    /\ UNCHANGED repairVars
    /\ UNCHANGED entityVars

\* return { hWalls, vWalls }
GridReturn ==
    /\ gpc = "limit"
    /\ gcell = GSize * GSize
    /\ gret' = [h |-> grid.h, v |-> grid.v]
    /\ gpc' = "done"
    /\ UNCHANGED <<engine, gargs, grid, gcell, gpass1, gprev>>
    /\ UNCHANGED streamVars
    /\ UNCHANGED queryVars
    /\ UNCHANGED repairVars
    /\ UNCHANGED entityVars

NextGrid ==
    \/ \E cx \in GridCoords, cz \in GridCoords : GridCall(cx, cz)
    \/ GridRemember
    \/ GridFill
    \/ GridOpenEdges
    \/ GridEnsureOpen
    \/ GridPassOneDone
    \/ GridLimitWalls
    \/ GridReturn

SpecGrid == InitGrid /\ [][NextGrid]_vars

(***************************************************************************)
(* Spec: the frame loop around updateChunks.  The start handler calls      *)
(* updateChunks and then animate; animate moves the camera, calls          *)
(* updateChunks and renders, and runs again on every animation frame.      *)
(* Rendering is what brings camera.matrixWorldInverse up to date, so the   *)
(* frustum of a call is that of the pose last rendered.  Mouse events turn *)
(* the camera between frames.                                              *)
(***************************************************************************)
\* the objects updateChunks is handed, and room for its locals
World ==
    [chunks |-> chunks, walls |-> walls, lightPanels |-> lightPanels,
     phonePositions |-> phonePositions, phoneMeshes |-> phoneMeshes,
     chunkBorders |-> chunkBorders, debugNormals |-> debugNormals,
     scene |-> scene, created |-> created, resources |-> resources,
     engine |-> engine, frustum |-> << >>, activeKeys |-> {}, rebuild |-> << >>,
     generated |-> << >>, evicted |-> << >>, group |-> << >>]

\* the state a call leaves; lastCall keeps what the call was given and did
Left(w, position, view) ==
    /\ chunks' = w.chunks
    /\ walls' = w.walls
    /\ lightPanels' = w.lightPanels
    /\ phonePositions' = w.phonePositions
    /\ phoneMeshes' = w.phoneMeshes
    /\ chunkBorders' = w.chunkBorders
    /\ debugNormals' = w.debugNormals
    /\ scene' = w.scene
    /\ created' = w.created
    /\ lastCall' = [calls |-> lastCall.calls + 1, position |-> position, view |-> view,
                    repeat |-> /\ lastCall.calls > 0
                               /\ lastCall.position = position
                               /\ lastCall.view = view,
                    generated |-> w.generated, evicted |-> w.evicted]
    /\ unloaded' = unloaded \cup {w.evicted[n].key : n \in 1..Len(w.evicted)}
    /\ former' = [k \in unloaded' |->
                    IF (\E n \in 1..Len(w.evicted) : w.evicted[n].key = k) /\ Has(chunks, k)
                    THEN WallSlots(chunks[EntryOf(chunks, k)].obj)
                    ELSE IF k \in unloaded THEN former[k] ELSE {}]

Init ==
    /\ engine \in Engines
    /\ GridIdle
    /\ \E outlet \in BOOLEAN, phone \in BOOLEAN : StreamInit(outlet, phone)
    /\ QueryIdle
    /\ RepairIdle
    /\ EntityIdle

\* updateChunks(), called by the start handler and by animate
UpdateChunks ==
    /\ pc \in {"start", "update"}
    /\ Left(updateChunks(World, camera, matrixWorldInverse),
            <<camera.x, camera.z>>, matrixWorldInverse)
    /\ pc' = IF pc = "start" THEN "update" ELSE "volumes"
    /\ UNCHANGED <<camera, matrixWorldInverse, resources, frames, engine, reads>>
    /\ UNCHANGED gridVars
    /\ UNCHANGED queryVars
    /\ UNCHANGED repairVars
    /\ UNCHANGED entityVars

\* what updateHumVolume and updatePhoneRingVolume iterate over
Volumes(panels, phones) == [NoReads EXCEPT !.lightPanels = SerialsOf(panels),
                                           !.phonePositions = SerialsOf(phones)]

\* updateHumVolume(); updatePhoneRingVolume(), after updateChunks in animate
UpdateVolumes ==
    /\ pc = "volumes"
    /\ reads' = Volumes(lightPanels, phonePositions)
    /\ pc' = "render"
    /\ UNCHANGED <<camera, matrixWorldInverse, resources, frames, engine, lastCall, unloaded, former>>
    /\ UNCHANGED worldVars
    /\ UNCHANGED gridVars
    /\ UNCHANGED queryVars
    /\ UNCHANGED repairVars
    /\ UNCHANGED entityVars

\* composer.render() at the end of animate
Render ==
    /\ pc = "render"
    /\ matrixWorldInverse' = camera
    /\ pc' = "idle"
    /\ UNCHANGED <<camera, resources, frames, engine, lastCall, unloaded, former, reads>>
    /\ UNCHANGED worldVars
    /\ UNCHANGED gridVars
    /\ UNCHANGED queryVars
    /\ UNCHANGED repairVars
    /\ UNCHANGED entityVars

\* the mousemove handler, pointer locked
MouseMove(look) ==
    /\ pc = "idle"
    /\ look # camera.look
    /\ camera' = [camera EXCEPT !.look = look]
    /\ UNCHANGED <<matrixWorldInverse, resources, frames, engine, lastCall, unloaded, former, pc, reads>>
    /\ UNCHANGED worldVars
    /\ UNCHANGED gridVars
    /\ UNCHANGED queryVars
    /\ UNCHANGED repairVars
    /\ UNCHANGED entityVars

\* what handleCollision iterates over
Collided(ws) == [NoReads EXCEPT !.walls = SerialsOf(ws)]

\* the next animation frame.  With the pointer locked animate computes the
\* next position, has handleCollision correct it against walls and moves
\* the camera to the result (x, 1.7, z); without, the camera stays.
Animate(x, z, locked) ==
    /\ pc = "idle"
    /\ frames < MaxFrames
    /\ locked \/ (x = camera.x /\ z = camera.z)
    /\ frames' = frames + 1
    /\ camera' = [camera EXCEPT !.x = x, !.z = z]
    /\ reads' = IF locked THEN Collided(walls) ELSE NoReads
    /\ pc' = "update"
    /\ UNCHANGED <<matrixWorldInverse, resources, engine, lastCall, unloaded, former>>
    /\ UNCHANGED worldVars
    /\ UNCHANGED gridVars
    /\ UNCHANGED queryVars
    /\ UNCHANGED repairVars
    /\ UNCHANGED entityVars

Next ==
    \/ UpdateChunks
    \/ UpdateVolumes
    \/ Render
    \/ \E look \in Looks : MouseMove(look)
    \/ \E x \in CamXs, z \in CamZs, locked \in BOOLEAN : Animate(x, z, locked)

Spec == Init /\ [][Next]_vars

(***************************************************************************)
(* SpecCollide: handleCollision(target) step by step against a list of     *)
(* walls: walls of chunk (0, 0) as generateChunk places them (two vertical *)
(* walls in line, which overlap by 0.31, and a horizontal wall that meets  *)
(* the first), and a block wide enough to enclose the agent's box.         *)
(***************************************************************************)
CollideGroup == <<1, 0, 0>>

CollideWalls ==
    {Mesh("wallGeoV", CollideGroup, <<"V", 1, 1, 0>>),
     Mesh("wallGeoV", CollideGroup, <<"V", 1, 2, 0>>),
     Mesh("wallGeoH", CollideGroup, <<"H", 1, 1, 0>>),
     Mesh("blockGeo", CollideGroup, <<"H", 2, 1, 0>>)}

\* the lists of at most two walls
CollideLists ==
    {<< >>} \cup {<<a>> : a \in CollideWalls}
            \cup {p \in CollideWalls \X CollideWalls : p[1] # p[2]}

CollideXs == {-4400, -4000, -3600, 0, 400, 1200}
CollideZs == {-3600, 0, 4000, 4500, 5200}

\* the lists of the game hold ws and nothing else
WorldOfWalls(ws) ==
    /\ camera = Spawn
    /\ matrixWorldInverse = Spawn
    /\ resources = [outletModel |-> FALSE, wallPhoneModel |-> FALSE]
    /\ chunks = << >>
    /\ walls = ws
    /\ lightPanels = << >>
    /\ phonePositions = << >>
    /\ phoneMeshes = << >>
    /\ chunkBorders = << >>
    /\ debugNormals = << >>
    /\ scene = << >>
    /\ created = 0
    /\ pc = "idle"
    /\ frames = 0
    /\ lastCall = [calls |-> 0, position |-> <<0, 0>>, view |-> Spawn,
                   repeat |-> FALSE, generated |-> << >>, evicted |-> << >>]
    /\ unloaded = {}
    /\ former = << >>
    /\ reads = NoReads

\* next.y = 1.7; handleCollision(next)
InitCollide ==
    /\ engine \in Engines
    /\ GridIdle
    /\ \E ws \in CollideLists : WorldOfWalls(ws)
    /\ sight = NoSight
    /\ cpc = "call"
    /\ \E x \in CollideXs, z \in CollideZs : proposed = <<x, CameraY * 100, z>>
    /\ target = proposed
    /\ pBox = NoBox
    /\ wallIndex = 0
    /\ pushes = << >>
    /\ earlier = NoEarlier
    /\ RepairIdle
    /\ EntityIdle

\* const pBox = new THREE.Box3().setFromCenterAndSize(target, ...)
HandleCollisionEnter ==
    /\ cpc = "call"
    /\ pBox' = setFromCenterAndSize(target, PlayerSize)
    /\ wallIndex' = 0
    /\ cpc' = "loop"
    /\ UNCHANGED <<proposed, target, pushes, earlier, sight, engine>>
    /\ UNCHANGED gridVars
    /\ UNCHANGED streamVars
    /\ UNCHANGED repairVars
    /\ UNCHANGED entityVars

\* one iteration of for (let i = 0; i < walls.length; i++)
HandleCollisionWall ==
    /\ cpc = "loop"
    /\ wallIndex < Len(walls)
    /\ LET step == Corrected(target, pBox, walls[wallIndex + 1])
       IN  /\ target' = step.after
           /\ pushes' = Append(pushes, step)
    /\ wallIndex' = wallIndex + 1
    /\ UNCHANGED <<cpc, proposed, pBox, earlier, sight, engine>>
    /\ UNCHANGED gridVars
    /\ UNCHANGED streamVars
    /\ UNCHANGED repairVars
    /\ UNCHANGED entityVars

\* the loop ends, handleCollision returns
HandleCollisionReturn ==
    /\ cpc = "loop"
    /\ wallIndex >= Len(walls)
    /\ cpc' = "done"
    /\ UNCHANGED <<proposed, target, pBox, wallIndex, pushes, earlier, sight, engine>>
    /\ UNCHANGED gridVars
    /\ UNCHANGED streamVars
    /\ UNCHANGED repairVars
    /\ UNCHANGED entityVars

\* the next frame without input: next is camera.position, which the frame
\* before set to the corrected position; next.y = 1.7; handleCollision(next)
HandleCollisionAgain ==
    /\ cpc = "done"
    /\ earlier' = [set |-> TRUE, proposed |-> proposed, target |-> target]
    /\ proposed' = [target EXCEPT ![2] = CameraY * 100]
    /\ target' = proposed'
    /\ cpc' = "call"
    /\ pBox' = NoBox
    /\ wallIndex' = 0
    /\ pushes' = << >>
    /\ UNCHANGED <<sight, engine>>
    /\ UNCHANGED gridVars
    /\ UNCHANGED streamVars
    /\ UNCHANGED repairVars
    /\ UNCHANGED entityVars

NextCollide ==
    \/ HandleCollisionEnter
    \/ HandleCollisionWall
    \/ HandleCollisionReturn
    \/ HandleCollisionAgain

SpecCollide == InitCollide /\ [][NextCollide]_vars

(***************************************************************************)
(* SpecSight: callers ask hasLineOfSight about pairs of points around the  *)
(* walls of SpecCollide: points on both sides of the first vertical wall,  *)
(* inside it (0.003 apart), on its face, and two points 0.001 apart in x   *)
(* and 24 apart in z, a segment the code handles as parallel to Z.         *)
(***************************************************************************)
SightPoints ==
    {<<-6000, 0>>, <<-2000, 0>>, <<-3850, -12000>>, <<-3849, 12000>>,
     <<-4000, 0>>, <<-3997, 0>>, <<-4000, 6000>>, <<-2000, 6000>>, <<-3850, 0>>}

\* no wall, the vertical wall, and the vertical wall among others
SightLists ==
    {<< >>,
     <<Mesh("wallGeoV", CollideGroup, <<"V", 1, 1, 0>>)>>,
     <<Mesh("wallGeoH", CollideGroup, <<"H", 1, 1, 0>>),
       Mesh("wallGeoV", CollideGroup, <<"V", 1, 1, 0>>)>>,
     <<Mesh("wallGeoV", CollideGroup, <<"V", 1, 2, 0>>),
       Mesh("wallGeoH", CollideGroup, <<"H", 1, 1, 0>>)>>}

InitSight ==
    /\ engine = "insertion"
    /\ GridIdle
    /\ \E ws \in SightLists : WorldOfWalls(ws)
    /\ QueryIdle
    /\ RepairIdle
    /\ EntityIdle

\* hasLineOfSight(fromX, fromZ, toX, toZ, walls)
HasLineOfSight(from, to) ==
    /\ sight' = [calls |-> Min(sight.calls + 1, 2), from |-> from, to |-> to,
                 result |-> hasLineOfSight(from, to, walls),
                 before |-> IF sight.calls = 0 THEN << >>
                            ELSE <<sight.from, sight.to, sight.result>>]
    /\ UNCHANGED <<cpc, proposed, target, pBox, wallIndex, pushes, earlier, engine>>
    /\ UNCHANGED gridVars
    /\ UNCHANGED streamVars
    /\ UNCHANGED repairVars
    /\ UNCHANGED entityVars

NextSight == \E from \in SightPoints, to \in SightPoints : HasLineOfSight(from, to)

SpecSight == InitSight /\ [][NextSight]_vars

(***************************************************************************)
(* SpecRepair: generateWallGrid from the end of the fill on, for any       *)
(* values of the stream.  The fill is any grid of gSize 1..MaxRepairSize,  *)
(* or the grid the fill leaves for a chunk of GridCoords with gSize GSize; *)
(* [...sides].sort(() => rng() - 0.5) is any order of the four sides.  A   *)
(* step is one evaluation of a while condition with what follows it: a     *)
(* pass of the loop body, or the exit to the next cell.                    *)
(***************************************************************************)
\* the orders of four sides
Orders == {p \in [1..4 -> 1..4] : \A a, b \in 1..4 : p[a] = p[b] => a = b}

\* the grids a fill can leave
Fills(gSize) ==
    [h : [0..gSize -> [0..(gSize - 1) -> BOOLEAN]],
     v : [0..gSize -> [0..(gSize - 1) -> BOOLEAN]]]

SidesOfCell(c, gSize) == Sides(c \div gSize, c % gSize)

InitRepair ==
    /\ engine = "insertion"
    /\ GridIdle
    /\ StreamInit(FALSE, FALSE)
    /\ QueryIdle
    /\ EntityIdle
    /\ rpc = "edges"
    /\ rcell = 0
    /\ rcount = 0
    /\ \/ /\ rsize \in 1..MaxRepairSize
          /\ rgrid \in Fills(rsize)
       \/ /\ rsize = GSize
          /\ \E cx \in GridCoords, cz \in GridCoords :
                rgrid = [h |-> FillGrid(cx, cz, GSize).h, v |-> FillGrid(cx, cz, GSize).v]

\* "Remove walls on chunk boundaries", then openSides of the first cell
RepairOpenEdges ==
    /\ rpc = "edges"
    /\ rgrid' = OpenEdges(rgrid, rsize)
    /\ rpc' = "open"
    /\ rcell' = 0
    /\ rcount' = CountOpen(rgrid', SidesOfCell(0, rsize))
    /\ UNCHANGED <<engine, rsize>>
    /\ UNCHANGED gridVars
    /\ UNCHANGED streamVars
    /\ UNCHANGED queryVars
    /\ UNCHANGED entityVars

\* while (openSides < 2): a pass over the sides in the order given; or the
\* loop is left, for the next cell or for the second pass
RepairEnsureOpen(order) ==
    /\ rpc = "open"
    /\ IF rcount < 2
       THEN LET r == OpenScan(rgrid, [k \in 1..4 |-> SidesOfCell(rcell, rsize)[order[k]]], 1, rcount)
            IN  /\ rgrid' = r.g
                /\ rcount' = r.n
                /\ UNCHANGED <<rpc, rcell>>
       ELSE IF rcell + 1 < rsize * rsize
            THEN /\ rcell' = rcell + 1
                 /\ rcount' = CountOpen(rgrid, SidesOfCell(rcell + 1, rsize))
                 /\ UNCHANGED <<rpc, rgrid>>
            ELSE /\ rpc' = "limit"
                 /\ rcell' = 0
                 /\ rcount' = CountWalls(rgrid, SidesOfCell(0, rsize))
                 /\ UNCHANGED rgrid
    /\ UNCHANGED <<engine, rsize>>
    /\ UNCHANGED gridVars
    /\ UNCHANGED streamVars
    /\ UNCHANGED queryVars
    /\ UNCHANGED entityVars

\* while (wallCount > 2): a pass over the sides in the order given; or the
\* loop is left, for the next cell or for the return
RepairLimitWalls(order) ==
    /\ rpc = "limit"
    /\ IF rcount > 2
       THEN LET r == LimitScan(rgrid, [k \in 1..4 |-> SidesOfCell(rcell, rsize)[order[k]]], 1, rcount)
            IN  /\ rgrid' = r.g
                /\ rcount' = r.n
                /\ UNCHANGED <<rpc, rcell>>
       ELSE IF rcell + 1 < rsize * rsize
            THEN /\ rcell' = rcell + 1
                 /\ rcount' = CountWalls(rgrid, SidesOfCell(rcell + 1, rsize))
                 /\ UNCHANGED <<rpc, rgrid>>
            ELSE /\ rpc' = "done"
                 /\ UNCHANGED <<rcell, rcount, rgrid>>
    /\ UNCHANGED <<engine, rsize>>
    /\ UNCHANGED gridVars
    /\ UNCHANGED streamVars
    /\ UNCHANGED queryVars
    /\ UNCHANGED entityVars

NextRepair ==
    \/ RepairOpenEdges
    \/ \E order \in Orders : RepairEnsureOpen(order)
    \/ \E order \in Orders : RepairLimitWalls(order)

\* the engine goes on running the function until it returns
SpecRepair == InitRepair /\ [][NextRepair]_vars /\ WF_vars(NextRepair)

(***************************************************************************)
(* SpecEntity: every animation frame the player may have moved and the     *)
(* sanity changed, and updateBacteriaEntity is called with the walls list. *)
(* The walls are a horizontal wall ahead of the spawn point and a vertical *)
(* wall to the right of it; the player stands at the spawn point, 6 to its *)
(* right, or 4 further on from there.                                      *)
(***************************************************************************)
EntityWalls ==
    <<Mesh("wallGeoH", CollideGroup, <<"H", 1, 1, 0>>),
      Mesh("wallGeoV", CollideGroup, <<"V", 2, 0, 0>>)>>

PlayerPoints == {<<0, 0>>, <<6000, 0>>, <<6000, -4000>>}

\* the frame times of the model
Steps == {1000, 2000}

InitEntity ==
    /\ engine = "insertion"
    /\ GridIdle
    /\ WorldOfWalls(EntityWalls)
    /\ QueryIdle
    /\ RepairIdle
    /\ EntityIdle

\* animate: the time passes, the player has moved, updateBacteriaEntity(...)
UpdateBacteriaEntity(dt, p, sanity, ready, draw, lucky, outcome) ==
    /\ now + dt <= MaxTime
    /\ now' = now + dt
    /\ player' = p
    /\ outcome \in IF SpawnDue(bacteria, now', sanity, ready, lucky)
                   THEN spawnBacteriaEntity(p, sanity, walls)
                   ELSE {NoSpawn}
    /\ bacteria' = updateBacteriaEntity(bacteria, now', p, sanity, ready, draw, lucky,
                                         outcome, walls)
    /\ lastUpdate' = [calls |-> 1, sanity |-> sanity, ready |-> ready,
                      spawnCalled |-> SpawnDue(bacteria, now', sanity, ready, lucky),
                      spawnResult |-> outcome # NoSpawn,
                      wasVisible |-> bacteria.visible]
    /\ hidden' = IF bacteria.visible /\ ~bacteria'.visible
                 THEN [set |-> TRUE, at |-> now', delay |-> bacteria'.nextSpawnDelay,
                       cause |-> HideCause(bacteria, now', p, sanity, walls)]
                 ELSE hidden
    /\ UNCHANGED engine
    /\ UNCHANGED gridVars
    /\ UNCHANGED streamVars
    /\ UNCHANGED queryVars
    /\ UNCHANGED repairVars

NextEntity ==
    \E dt \in Steps, p \in PlayerPoints, sanity \in Sanities, ready \in BOOLEAN,
       draw \in Draws, lucky \in BOOLEAN :
        \E outcome \in {NoSpawn} \cup SpawnPoints(p, sanity) :
            UpdateBacteriaEntity(dt, p, sanity, ready, draw, lucky, outcome)

SpecEntity == InitEntity /\ [][NextEntity]_vars

(***************************************************************************)
(* Properties of generateWallGrid.                                         *)
(***************************************************************************)
Cells == 0..(GSize - 1)

\* number of closed slots among the four bounding slots of cell (x, z):
\* hWalls[z][x], hWalls[z+1][x], vWalls[x][z], vWalls[x+1][z]
ClosedAround(h, v, x, z) ==
    (IF h[z][x] THEN 1 ELSE 0) + (IF h[z + 1][x] THEN 1 ELSE 0)
    + (IF v[x][z] THEN 1 ELSE 0) + (IF v[x + 1][z] THEN 1 ELSE 0)

\* C1: in every grid generateWallGrid returns, every cell (x, z) has at least
\* 2 of its 4 bounding slots open, that is at most 2 of them closed.
C1_TwoOpenSides ==
    gpc = "done" =>
        \A x \in Cells, z \in Cells :
            /\ 4 - ClosedAround(gret.h, gret.v, x, z) >= 2
            /\ ClosedAround(gret.h, gret.v, x, z) <= 2

\* cell (x, z) is closed on 3 or 4 sides in grid f and on 2 in the grid returned
RepairedCell(f, x, z) ==
    /\ ClosedAround(f.h, f.v, x, z) >= 3
    /\ ClosedAround(gret.h, gret.v, x, z) = 2

\* a call has returned a grid in which the first repair pass had to open slots
\* of a cell that the random fill had closed on 3 or 4 sides
C1_Witness ==
    /\ gpc = "done"
    /\ \E x \in Cells, z \in Cells :
          RepairedCell(OpenEdges(FillGrid(gargs.cx, gargs.cz, GSize), GSize), x, z)

\* C2: in every grid generateWallGrid returns, the midpoint slot of each of
\* the four chunk edges is open.
C2_EdgeMidpointsOpen ==
    gpc = "done" =>
        LET m == GSize \div 2
        IN  /\ ~gret.h[0][m]
            /\ ~gret.h[GSize][m]
            /\ ~gret.v[0][m]
            /\ ~gret.v[GSize][m]

\* a call has returned for a chunk whose random fill had closed a midpoint
\* edge slot
ClosedMidpoints(f) == f.h[0][GSize \div 2] /\ f.v[GSize][GSize \div 2]

C2_Witness ==
    /\ gpc = "done"
    /\ ClosedMidpoints(FillGrid(gargs.cx, gargs.cz, GSize))

\* C3: a call of generateWallGrid with the coordinates of an earlier call
\* returns the grid the earlier call returned, slot by slot, whatever calls
\* were made in between.
C3_Deterministic ==
    (gpc = "done" /\ gprev.set /\ gprev.cx = gargs.cx /\ gprev.cz = gargs.cz) =>
        /\ \A i \in 0..GSize, j \in Cells :
              /\ gret.h[i][j] = gprev.ret.h[i][j]
              /\ gret.v[i][j] = gprev.ret.v[i][j]

\* a second call with the coordinates of a remembered call has returned, after
\* a call for another chunk in between
C3_Witness ==
    /\ gpc = "done"
    /\ gprev.set /\ gprev.cx = gargs.cx /\ gprev.cz = gargs.cz
    /\ gprev.between

(***************************************************************************)
(* Properties of updateChunks.  The chunks and the lists change in         *)
(* updateChunks only, so what a call leaves holds until the next call.     *)
(***************************************************************************)
\* the camera chunk (px, pz) of the last call
CallChunk == <<PlayerChunk(lastCall.position[1]), PlayerChunk(lastCall.position[2])>>

\* the frustum of the last call
CallFrustum == setFromProjectionMatrix(lastCall.view)

\* the chunk coordinates in reach of the camera
Coords == ChunkXs \X ChunkZs

Chebyshev(k, c) ==
    IF Abs(k[1] - c[1]) >= Abs(k[2] - c[2]) THEN Abs(k[1] - c[1]) ELSE Abs(k[2] - c[2])

Near(k) == Chebyshev(k, CallChunk) <= RENDER_DIST

Preload(k) == Chebyshev(k, CallChunk) <= PRELOAD_DIST

InFrustum(k) == isChunkPotentiallyVisible(CallFrustum, k[1], k[2])

Range(list) == {list[n] : n \in 1..Len(list)}

KeySet(map) == {map[n].key : n \in 1..Len(map)}

\* C4: after any call of updateChunks, every chunk coordinate at Chebyshev
\* distance at most RENDER_DIST from the camera chunk is in the chunk map,
\* whether or not its box intersects the frustum.
C4_NearResident ==
    lastCall.calls > 0 =>
        \A k \in Coords : Chebyshev(k, CallChunk) <= RENDER_DIST => k \in KeySet(chunks)

\* a call with the camera in a chunk of negative index has left resident a
\* near chunk that the frustum does not intersect
C4_Witness ==
    /\ lastCall.calls > 0
    /\ lastCall.position[1] < 0
    /\ \E k \in Coords : Near(k) /\ ~InFrustum(k) /\ k \in KeySet(chunks)

\* the residency predicate of the last call
Target(k) == Near(k) \/ (Preload(k) /\ InFrustum(k))

EvictedSerials == {lastCall.evicted[n].serial : n \in 1..Len(lastCall.evicted)}

\* C6: after a call of updateChunks that evicted chunks, one or several,
\* walls holds no wall of an evicted chunk, and lightPanels and
\* phonePositions hold no entry of an evicted chunk.
C6_NoEvictedPrimitives ==
    /\ \A n \in 1..Len(walls) : walls[n].group[1] \notin EvictedSerials
    /\ \A n \in 1..Len(lightPanels) : lightPanels[n].group[1] \notin EvictedSerials
    /\ \A n \in 1..Len(phonePositions) : phonePositions[n].group[1] \notin EvictedSerials

\* a call has evicted several chunks, one with walls and a phone, and has
\* kept others
C6_Witness ==
    /\ Len(lastCall.evicted) >= 2
    /\ \E n \in 1..Len(lastCall.evicted) :
          lastCall.evicted[n].walls > 0 /\ lastCall.evicted[n].phones > 0
    /\ walls # << >>

\* the children of the resident chunks that are meshes of one of the geometries
ResidentMeshes(geometries) ==
    UNION {{c \in Range(chunks[n].obj.children) : c.isMesh /\ c.geometry \in geometries} :
           n \in 1..Len(chunks)}

\* the phone positions of the resident chunks
ResidentPhones ==
    UNION {Range(chunks[n].obj.userData.phonePositions) : n \in 1..Len(chunks)}

\* the elements of list are those of set, each once
ExactlyOnce(list, set) == Range(list) = set /\ Len(list) = Cardinality(set)

\* C7: after every call of updateChunks, walls holds the wall meshes of the
\* resident chunks and nothing else, each mesh once; lightPanels holds their
\* panels and phonePositions their phone positions in the same way.
C7_ListsMatchResident ==
    /\ ExactlyOnce(walls, ResidentMeshes({"wallGeoV", "wallGeoH"}))
    /\ ExactlyOnce(lightPanels, ResidentMeshes({"lightPanelGeo"}))
    /\ ExactlyOnce(phonePositions, ResidentPhones)

\* a call has evicted chunks, generated others and kept some it found, with a
\* phone position registered
C7_Witness ==
    /\ lastCall.evicted # << >>
    /\ lastCall.generated # << >>
    /\ Len(chunks) > Len(lastCall.generated)
    /\ phonePositions # << >>

\* C8: a call of updateChunks with the camera position and the frustum of the
\* call before generates no chunk, evicts none, and leaves the chunk map,
\* walls, lightPanels and phonePositions as they were, order included.
C8_Idempotent ==
    [][(/\ lastCall.calls > 0
        /\ lastCall'.calls = lastCall.calls + 1
        /\ lastCall.position = <<camera.x, camera.z>>
        /\ lastCall.view = matrixWorldInverse)
       => /\ lastCall'.generated = << >>
          /\ lastCall'.evicted = << >>
          /\ chunks' = chunks
          /\ walls' = walls
          /\ lightPanels' = lightPanels
          /\ phonePositions' = phonePositions]_vars

\* a call has been made with the camera position and frustum of the call
\* before it, which had loaded chunks
C8_Witness ==
    /\ lastCall.repeat
    /\ chunks # << >>
    /\ walls # << >>

\* C9: after any call of updateChunks no coordinate at Chebyshev distance
\* above PRELOAD_DIST from the camera chunk is resident, whether it was
\* resident before the call or its box intersects the frustum.
C9_NothingBeyondPreload ==
    lastCall.calls > 0 =>
        \A n \in 1..Len(chunks) : Chebyshev(chunks[n].key, CallChunk) <= PRELOAD_DIST

\* a call has evicted a chunk beyond PRELOAD_DIST that the frustum intersects
C9_Witness ==
    \E n \in 1..Len(lastCall.evicted) :
        /\ Chebyshev(lastCall.evicted[n].key, CallChunk) > PRELOAD_DIST
        /\ InFrustum(lastCall.evicted[n].key)

\* the serial of the group the map holds for key k
SerialOf(map, k) == map[EntryOf(map, k)].obj.serial

\* the groups that have an entry in one of the three lists
Registered(ws, panels, phones) ==
    {ws[n].group : n \in 1..Len(ws)}
    \cup {panels[n].group : n \in 1..Len(panels)}
    \cup {phones[n].group : n \in 1..Len(phones)}

\* no coordinate has two entries in the map, and none has the primitives of
\* two groups in the lists
OneCopy(map, ws, panels, phones) ==
    /\ Len(map) = Cardinality(KeySet(map))
    /\ \A g \in Registered(ws, panels, phones), h \in Registered(ws, panels, phones) :
          (g[2] = h[2] /\ g[3] = h[3]) => g[1] = h[1]

\* C10: a coordinate goes from unloaded to resident and back, nothing else:
\* it enters the map only when generateChunk is called for it, generateChunk
\* is called only for a coordinate that is not in the map, a coordinate that
\* stays in the map keeps its group, it leaves the map only by the eviction
\* pass of updateChunks, and no coordinate ever has two entries or the
\* primitives of two groups registered.
C10_Lifecycle ==
    [][/\ \A k \in KeySet(chunks') \ KeySet(chunks) :
             /\ lastCall'.calls = lastCall.calls + 1
             /\ k \in Range(lastCall'.generated)
       /\ lastCall'.calls = lastCall.calls + 1 =>
             /\ \A k \in Range(lastCall'.generated) : k \notin KeySet(chunks)
             /\ Len(lastCall'.generated) = Cardinality(Range(lastCall'.generated))
       /\ \A k \in KeySet(chunks) \cap KeySet(chunks') :
             SerialOf(chunks', k) = SerialOf(chunks, k)
       /\ \A k \in KeySet(chunks) \ KeySet(chunks') :
             /\ lastCall'.calls = lastCall.calls + 1
             /\ \E n \in 1..Len(lastCall'.evicted) : lastCall'.evicted[n].key = k
       /\ OneCopy(chunks', walls', lightPanels', phonePositions')]_vars

\* a call has generated a chunk anew for a coordinate that was resident and
\* evicted before, next to chunks it found resident and left alone
C10_Witness ==
    /\ \E k \in Range(lastCall.generated) : k \in unloaded /\ k \in KeySet(chunks)
    /\ Len(chunks) > Len(lastCall.generated)

(***************************************************************************)
(* Properties of handleCollision.                                          *)
(***************************************************************************)
PlayerBox(t) == setFromCenterAndSize(t, PlayerSize)

\* box a lies within box b
Encloses(b, a) == \A k \in 1..3 : b.min[k] <= a.min[k] /\ a.max[k] <= b.max[k]

\* the boxes share no interior point on the ground plane (they may touch)
Outside(a, b) == \E k \in {1, 3} : a.max[k] <= b.min[k] \/ b.max[k] <= a.min[k]

\* the extent on axis k of the overlap of two intersecting boxes
Extent(a, b, k) == Min(a.max[k], b.max[k]) - Max(a.min[k], b.min[k])

Returned == cpc = "done"

C12_SmallerAxis ==
    (Returned /\ Len(walls) = 1 /\ BoxIntersectsBox(PlayerBox(proposed), setFromObject(walls[1])))
        => LET wBox == setFromObject(walls[1])
               ex == Extent(PlayerBox(proposed), wBox, 1)
               ez == Extent(PlayerBox(proposed), wBox, 3)
               k == IF ex < ez THEN 1 ELSE 3
               e == IF ex < ez THEN ex ELSE ez
               c == getWorldPosition(walls[1])[k]
           IN  /\ target[k] = IF proposed[k] > c THEN proposed[k] + e ELSE proposed[k] - e
               /\ \A m \in 1..3 : m # k => target[m] = proposed[m]

\* a call that pushed the agent sideways out of a single wall
C12_Witness ==
    /\ Returned
    /\ Len(walls) = 1
    /\ BoxIntersectsBox(PlayerBox(proposed), setFromObject(walls[1]))
    /\ Extent(PlayerBox(proposed), setFromObject(walls[1]), 1) > 0
    /\ Extent(PlayerBox(proposed), setFromObject(walls[1]), 1)
         < Extent(PlayerBox(proposed), setFromObject(walls[1]), 3)
    /\ target[1] # proposed[1]

\* C13: with two or more walls overlapping the agent, every wall's
\* intersection test and overlap box are computed from the agent's box at
\* the position the walls before it have corrected.
C13_SequentialBox ==
    \A n \in 1..Len(pushes) :
        LET wBox == setFromObject(walls[n])
            box == PlayerBox(pushes[n].before)
        IN  /\ pushes[n].hit = BoxIntersectsBox(box, wBox)
            /\ pushes[n].hit => pushes[n].size = OverlapSize(box, wBox)

(***************************************************************************)
(* Properties of hasLineOfSight.                                           *)
(***************************************************************************)
\* the point of the segment at parameter s = <<n, d>> lies in the box, on
\* the ground plane
PointInBox(from, to, s, box) ==
    /\ (box.min[1] * s[2]) <= ((from[1] * s[2]) + (s[1] * (to[1] - from[1])))
    /\ ((from[1] * s[2]) + (s[1] * (to[1] - from[1]))) <= (box.max[1] * s[2])
    /\ (box.min[3] * s[2]) <= ((from[2] * s[2]) + (s[1] * (to[2] - from[2])))
    /\ ((from[2] * s[2]) + (s[1] * (to[2] - from[2]))) <= (box.max[3] * s[2])

\* the parameters at which the segment crosses the planes of the box's
\* faces, and the middle of the segment
Crossings(from, to, box) ==
    {<<1, 2>>}
      \cup (IF to[1] = from[1] THEN {}
            ELSE {Frac(box.min[1] - from[1], to[1] - from[1]),
                  Frac(box.max[1] - from[1], to[1] - from[1])})
      \cup (IF to[2] = from[2] THEN {}
            ELSE {Frac(box.min[3] - from[2], to[2] - from[2]),
                  Frac(box.max[3] - from[2], to[2] - from[2])})

\* the part of the segment inside the box is an interval of parameters; it
\* overlaps the open interval between the end points when the box holds a
\* point of the segment other than its end points
Occludes(wall, from, to) ==
    \E s \in Crossings(from, to, setFromObject(wall)) :
        /\ FracLess(<<0, 1>>, s)
        /\ FracLess(s, <<1, 1>>)
        /\ PointInBox(from, to, s, setFromObject(wall))

\* C14: hasLineOfSight(A, B, walls) = hasLineOfSight(B, A, walls): a call
\* with the end points of the call before exchanged returns what that call
\* returned.
C14_Symmetric ==
    (sight.calls >= 2 /\ sight.before[1] = sight.to /\ sight.before[2] = sight.from)
        => sight.result = sight.before[3]

\* C15: for two distinct points hasLineOfSight returns true exactly when no
\* wall's box holds a point of the segment strictly between them.
C15_ClearIffNoOcclusion ==
    (sight.calls >= 1 /\ sight.from # sight.to)
        => (sight.result <=> ~(\E n \in 1..Len(walls) : Occludes(walls[n], sight.from, sight.to)))

\* C16: hasLineOfSight of a point and itself is true, whatever the walls.
C16_CoincidentVisible ==
    (sight.calls >= 1 /\ sight.from = sight.to) => sight.result

\* a call for a point inside a wall's box and itself
C16_Witness ==
    /\ sight.calls >= 1
    /\ sight.from = sight.to
    /\ \E n \in 1..Len(walls) :
          PointInBox(sight.from, sight.to, <<0, 1>>, setFromObject(walls[n]))
    /\ sight.result

(***************************************************************************)
(* Properties of generateChunk under updateChunks.                         *)
(***************************************************************************)
\* the chunk coordinate of the group an object belongs to
ChunkOf(o) == <<o.group[2], o.group[3]>>

\* the chunk lies within the exclusion distance of the origin chunk
Excluded(k) == Chebyshev(k, <<0, 0>>) < PHONE_EXCLUSION_DIST

\* a wall mesh of the chunk whose phone roll succeeds
RolledPhone(wall) ==
    HasPhone([x |-> WallPosition(wall.at)[1] \div 1000, z |-> WallPosition(wall.at)[3] \div 1000],
             TrigSeed(wall.group[2], wall.group[3]))

\* C17: no chunk at Chebyshev distance below PHONE_EXCLUSION_DIST from the
\* origin chunk places a phone: phonePositions and phoneMeshes hold nothing
\* of such a chunk, and no resident group of such a chunk has a phone child.
C17_PhoneExclusion ==
    /\ \A n \in 1..Len(phonePositions) : ~Excluded(ChunkOf(phonePositions[n]))
    /\ \A n \in 1..Len(phoneMeshes) : ~Excluded(ChunkOf(phoneMeshes[n]))
    /\ \A n \in 1..Len(chunks) :
          Excluded(chunks[n].key) =>
             \A m \in 1..Len(chunks[n].obj.children) :
                 chunks[n].obj.children[m].geometry # "phone"

\* the phone model is loaded and a resident chunk within the exclusion
\* distance has a wall whose phone roll succeeds
C17_Witness ==
    /\ resources.wallPhoneModel
    /\ \E n \in 1..Len(walls) : Excluded(ChunkOf(walls[n])) /\ RolledPhone(walls[n])
    /\ \E n \in 1..Len(phonePositions) : ~Excluded(ChunkOf(phonePositions[n]))

\* the objects of list that belong to the group with this serial
OfGroup(list, serial) ==
    LET Member(o) == o.group[1] = serial
    IN  SelectSeq(list, Member)

\* a world with both models loaded and nothing built, in which the next
\* group gets the serial given
Stocked(serial) ==
    [World EXCEPT !.resources = [outletModel |-> TRUE, wallPhoneModel |-> TRUE],
                  !.created = serial - 1, !.chunks = << >>, !.walls = << >>,
                  !.lightPanels = << >>, !.phonePositions = << >>, !.phoneMeshes = << >>,
                  !.chunkBorders = << >>, !.debugNormals = << >>, !.scene = << >>]

\* the group generateChunk builds for the chunk of obj, with obj's serial,
\* when both models are loaded
WithModels(obj) == generateChunk(obj.cx, obj.cz, Stocked(obj.serial)).group

WallsOf(obj) ==
    LET OfWallGeometry(o) == o.isMesh /\ o.geometry \in {"wallGeoV", "wallGeoH"}
    IN  SelectSeq(obj.children, OfWallGeometry)

PanelsOf(obj) ==
    LET OfPanelGeometry(o) == o.isMesh /\ o.geometry = "lightPanelGeo"
    IN  SelectSeq(obj.children, OfPanelGeometry)

HasChild(obj, class) == \E m \in 1..Len(obj.children) : obj.children[m].geometry = class

\* obj lacks the props of the absent models and has the walls and light
\* panels of full, and the lists hold those walls and panels for it
SameStructure(obj, full) ==
    /\ ~resources.outletModel => ~HasChild(obj, "outlet")
    /\ ~resources.wallPhoneModel =>
          ~HasChild(obj, "phone") /\ obj.userData.phonePositions = << >>
    /\ OfGroup(walls, obj.serial) = WallsOf(full)
    /\ OfGroup(lightPanels, obj.serial) = PanelsOf(full)
    /\ WallsOf(obj) = WallsOf(full)
    /\ PanelsOf(obj) = PanelsOf(full)

\* updateChunks has just returned, to the start handler or to animate
CallReturned == pc = "volumes" \/ (pc = "update" /\ frames = 0 /\ lastCall.calls > 0)

\* C18: with the outlet model or the phone model absent, every chunk the
\* updateChunks call that just returned has had generateChunk build has no
\* prop of the absent kind, a missing phone model leaves phonePositions
\* empty, and the walls and light panels the chunk has registered are those
\* it registers with both models loaded.
C18_MissingModels ==
    ((~resources.outletModel \/ ~resources.wallPhoneModel) /\ CallReturned) =>
        /\ ~resources.wallPhoneModel => phonePositions = << >> /\ phoneMeshes = << >>
        /\ \A n \in 1..Len(chunks) :
              chunks[n].key \in Range(lastCall.generated) =>
                  SameStructure(chunks[n].obj, Computed(WithModels(chunks[n].obj)))

\* the outlet model is absent and the phone model loaded: a resident chunk
\* that has an outlet when the models are loaded has none, and another has
\* its phone
C18_Witness ==
    /\ ~resources.outletModel
    /\ resources.wallPhoneModel
    /\ CallReturned
    /\ \E n \in 1..Len(chunks) :
          /\ chunks[n].key \in Range(lastCall.generated)
          /\ HasChild(WithModels(chunks[n].obj), "outlet")
          /\ ~HasChild(chunks[n].obj, "outlet")
    /\ phonePositions # << >>

(***************************************************************************)
(* Properties of the frame loop.                                           *)
(***************************************************************************)
\* the serials of the groups in the resident map
ResidentSerials == {chunks[n].obj.serial : n \in 1..Len(chunks)}

\* C19: every reader of the lists sees primitives of resident chunks only.
\* handleCollision runs before the frame's updateChunks and the volume
\* updates after it, updateChunks being one synchronous call; in the state
\* each reader leaves, the groups of what it read are in the map.
C19_ReadersSeeResident ==
    /\ pc = "update" => reads.walls \subseteq ResidentSerials
    /\ pc = "render" =>
          (reads.lightPanels \cup reads.phonePositions) \subseteq ResidentSerials

\* a frame whose updateChunks evicted chunks and generated others, after
\* which the volume updates measured panels and phone positions
C19_Witness ==
    /\ pc = "render"
    /\ lastCall.evicted # << >>
    /\ lastCall.generated # << >>
    /\ reads.lightPanels # {}
    /\ reads.phonePositions # {}

(***************************************************************************)
(* Passage between neighbouring chunks.  The walls of slot vWalls[GSize][j]*)
(* of chunk (cx, cz) and of slot vWalls[0][j] of chunk (cx + 1, cz) stand  *)
(* on the same line, as do hWalls[GSize][j] and hWalls[0][j] of the chunk  *)
(* (cx, cz + 1): the edge is open at j when both slots are.                *)
(***************************************************************************)
\* generateWallGrid for the chunks of GridCoords and the chunks around them
EdgeGrids ==
    Computed([eng \in Engines |->
        [c \in ((-MaxCoord - 1)..(MaxCoord + 1)) \X ((-MaxCoord - 1)..(MaxCoord + 1)) |->
            generateWallGrid(c[1], c[2], GSize, eng)]])

\* the cells <<x, z>> one open slot away from a cell of the set, within the chunk
Stepped(h, v, set) ==
    set \cup {c \in Cells \X Cells :
                \E d \in set :
                    \/ d[2] = c[2] /\ d[1] + 1 = c[1] /\ ~v[c[1]][c[2]]
                    \/ d[2] = c[2] /\ c[1] + 1 = d[1] /\ ~v[d[1]][c[2]]
                    \/ d[1] = c[1] /\ d[2] + 1 = c[2] /\ ~h[c[2]][c[1]]
                    \/ d[1] = c[1] /\ c[2] + 1 = d[2] /\ ~h[d[2]][c[1]]}

RECURSIVE ReachableFrom(_, _, _)
ReachableFrom(h, v, set) ==
    IF Stepped(h, v, set) = set THEN set ELSE ReachableFrom(h, v, Stepped(h, v, set))

\* the cells of the chunk with grid [h, v] from which the edge to the
\* neighbour in direction dir, with grid nb, is open
Gates(h, v, nb, dir) ==
    CASE dir = "east"  -> {<<GSize - 1, j>> : j \in {k \in Cells : ~v[GSize][k] /\ ~nb.vWalls[0][k]}}
      [] dir = "west"  -> {<<0, j>> : j \in {k \in Cells : ~v[0][k] /\ ~nb.vWalls[GSize][k]}}
      [] dir = "south" -> {<<j, GSize - 1>> : j \in {k \in Cells : ~h[GSize][k] /\ ~nb.hWalls[0][k]}}
      [] dir = "north" -> {<<j, 0>> : j \in {k \in Cells : ~h[0][k] /\ ~nb.hWalls[GSize][k]}}

NeighbourOf(cx, cz, dir) ==
    CASE dir = "east"  -> <<cx + 1, cz>>
      [] dir = "west"  -> <<cx - 1, cz>>
      [] dir = "south" -> <<cx, cz + 1>>
      [] dir = "north" -> <<cx, cz - 1>>

Directions == {"east", "west", "south", "north"}

C26_SecondPassIdle ==
    /\ gpc = "limit" =>
          /\ \A x \in Cells, z \in Cells : ClosedAround(gpass1.h, gpass1.v, x, z) <= 2
          /\ grid.h = gpass1.h /\ grid.v = gpass1.v
    /\ gpc = "done" => gret = gpass1

\* a call has returned, its second pass run over a grid in which the first
\* pass had opened slots
C26_Witness ==
    /\ gpc = "done"
    /\ gcell = GSize * GSize
    /\ LET f == OpenEdges(FillGrid(gargs.cx, gargs.cz, GSize), GSize)
       IN  gpass1 # [h |-> f.h, v |-> f.v]
    /\ gret = gpass1

\* the slot of the neighbouring chunk's grid that stands where side does, or
\* the side itself when it is not on a chunk edge
Coincident(side) ==
    IF side[2] = GSize THEN <<side[1], 0, side[3]>>
    ELSE IF side[2] = 0 THEN <<side[1], GSize, side[3]>>
    ELSE side

\* the chunk whose grid holds the slot coincident with side of chunk (cx, cz)
AcrossSide(cx, cz, side) ==
    CASE side[1] = "v" /\ side[2] = GSize -> <<cx + 1, cz>>
      [] side[1] = "v" /\ side[2] = 0     -> <<cx - 1, cz>>
      [] side[1] = "h" /\ side[2] = GSize -> <<cx, cz + 1>>
      [] side[1] = "h" /\ side[2] = 0     -> <<cx, cz - 1>>
      [] OTHER -> <<cx, cz>>

\* a wall of either chunk stands on side of chunk (cx, cz) with grid [h, v]
WalledInWorld(g, cx, cz, side) ==
    \/ IsWall(g, side)
    \/ LET nb == EdgeGrids[engine][AcrossSide(cx, cz, side)]
       IN  IsWall([h |-> nb.hWalls, v |-> nb.vWalls], Coincident(side))

\* C27: with the neighbouring chunks resident, every cell of a chunk has at
\* least 2 of its 4 sides free of walls of either chunk.
C27_TwoOpenSidesInWorld ==
    gpc = "done" =>
        \A x \in Cells, z \in Cells :
            Cardinality({k \in 1..4 : ~WalledInWorld(gret, gargs.cx, gargs.cz, Sides(z, x)[k])}) >= 2

(***************************************************************************)
(* Further properties of handleCollision.                                  *)
(***************************************************************************)
\* C29: handleCollision never changes the agent's Y coordinate and never
\* modifies the walls list, and returns the position it was given when the
\* agent's box at that position intersects no wall's box.
C29_FrameEffect ==
    [][/\ cpc \in {"loop", "done"} => target'[2] = proposed[2]
       /\ walls' = walls
       /\ (cpc' = "done" /\ \A n \in 1..Len(walls) :
                               ~BoxIntersectsBox(PlayerBox(proposed), setFromObject(walls[n])))
            => target' = proposed]_vars

\* a call has returned the position it was given, the agent clear of two walls
C29_Witness ==
    /\ Returned
    /\ Len(walls) = 2
    /\ \A n \in 1..Len(walls) :
          ~BoxIntersectsBox(PlayerBox(proposed), setFromObject(walls[n]))
    /\ target = proposed

\* on axis k the agent's box a sticks out of the wall's box w on one side
\* only: it has entered from that side and does not span the wall
EntersFromOneSide(a, w, k) ==
    \/ a.min[k] < w.min[k] /\ a.max[k] <= w.max[k]
    \/ a.max[k] > w.max[k] /\ a.min[k] >= w.min[k]

\* the agent at p has entered the only wall from one side on the axis of
\* smaller overlap (on both axes when the overlaps are equal)
EnteredSideways(p) ==
    /\ Len(walls) = 1
    /\ LET a == PlayerBox(p)
           w == setFromObject(walls[1])
       IN  /\ BoxIntersectsBox(a, w)
           /\ Extent(a, w, 1) <= Extent(a, w, 3) => EntersFromOneSide(a, w, 1)
           /\ Extent(a, w, 3) <= Extent(a, w, 1) => EntersFromOneSide(a, w, 3)

\* C30: when the agent has entered a single wall from one side on the axis
\* of smaller overlap, the box at the position handleCollision returns
\* shares no interior point with the wall's box, and a second call at that
\* position returns it unchanged.
C30_ResolvedOnce ==
    /\ (Returned /\ EnteredSideways(proposed))
          => Outside(PlayerBox(target), setFromObject(walls[1]))
    /\ (Returned /\ earlier.set /\ EnteredSideways(earlier.proposed))
          => /\ proposed = earlier.target
             /\ target = proposed

\* the second call has returned, after a first that pushed the agent out
\* of the wall it had entered from one side
C30_Witness ==
    /\ Returned
    /\ earlier.set
    /\ EnteredSideways(earlier.proposed)
    /\ earlier.target # earlier.proposed
    /\ target = earlier.target

Footprints(p) ==
    {c \in ((PlayerChunk(p) - 1)..(PlayerChunk(p) + 2)) :
        /\ (c * CHUNK_SIZE) - (CHUNK_SIZE \div 2) <= p
        /\ p <= (c * CHUNK_SIZE) + (CHUNK_SIZE \div 2)}

\* C28: after every updateChunks call the chunks whose footprint contains
\* the camera position, and the 8 chunks around each, are resident.
C28_FootprintResident ==
    CallReturned =>
        \A fx \in Footprints(lastCall.position[1]), fz \in Footprints(lastCall.position[2]) :
            \A dx \in {-1, 0, 1}, dz \in {-1, 0, 1} :
                Key(fx + dx, fz + dz) \in KeySet(chunks)

\* a call has returned with the camera on the edge between two footprints,
\* one of them not the chunk Math.floor gives
C28_Witness ==
    /\ CallReturned
    /\ \E fx \in Footprints(lastCall.position[1]) : fx # PlayerChunk(lastCall.position[1])
    /\ Key(PlayerChunk(lastCall.position[1]) + 2, PlayerChunk(lastCall.position[2])) \in KeySet(chunks)

(***************************************************************************)
(* Termination of generateWallGrid.                                        *)
(***************************************************************************)
\* the number of closed slots of a grid
ClosedSlots(g, gSize) ==
    Cardinality({s \in {"h", "v"} \X (0..gSize) \X (0..(gSize - 1)) : IsWall(g, s)})

\* the loop body is about to run: the while condition holds
InLoopBody == (rpc = "open" /\ rcount < 2) \/ (rpc = "limit" /\ rcount > 2)

\* C23: generateWallGrid returns for every gSize and whatever the stream
\* draws: every pass of either while loop leaves fewer closed slots than
\* it found, and the function reaches its return.
C23_Terminates ==
    /\ [][InLoopBody => ClosedSlots(rgrid', rsize) < ClosedSlots(rgrid, rsize)]_vars
    /\ <>(rpc = "done")

\* the function has returned a 2 x 2 grid, both loops left for every cell
\* with slots still closed
C23_Witness ==
    /\ rpc = "done"
    /\ rsize = 2
    /\ rcell = (rsize * rsize) - 1
    /\ ClosedSlots(rgrid, rsize) >= 4

(***************************************************************************)
(* Properties of the bacteria entity, under SpecEntity.                    *)
(***************************************************************************)
\* the square of half side EntityHalfWidth + EntityPadding about c and the
\* box of the wall share no area on the ground
SquareClearOf(c, w) ==
    LET b == setFromObject(w)
        h == EntityHalfWidth + EntityPadding
    IN  \/ c[1] + h <= b.min[1] \/ b.max[1] <= c[1] - h
        \/ c[2] + h <= b.min[3] \/ b.max[3] <= c[2] - h

\* C21: whenever spawnBacteriaEntity makes the entity visible, hasLineOfSight
\* from the player to the spawn position is true for the walls and the
\* entity's padded square there overlaps no wall box; when it returns false
\* after its attempts the entity stays not visible.
C21_SpawnClear ==
    (lastUpdate.calls > 0 /\ lastUpdate.spawnCalled) =>
        IF bacteria.visible
        THEN /\ lastUpdate.spawnResult
             /\ hasLineOfSight(player, bacteria.position, walls)
             /\ \A n \in 1..Len(walls) : SquareClearOf(bacteria.position, walls[n])
        ELSE /\ ~lastUpdate.spawnResult
             /\ \E c \in SpawnPoints(player, lastUpdate.sanity) :
                    \/ ~hasLineOfSight(player, c, walls)
                    \/ \E n \in 1..Len(walls) : ~SquareClearOf(c, walls[n])

\* a spawn that succeeded although one of its attempts could fall on a wall
C21_Witness ==
    /\ lastUpdate.calls > 0 /\ lastUpdate.spawnCalled /\ lastUpdate.spawnResult
    /\ bacteria.visible
    /\ \E c \in SpawnPoints(player, lastUpdate.sanity) :
            /\ hasLineOfSight(player, c, walls)
            /\ \E n \in 1..Len(walls) : ~SquareClearOf(c, walls[n])

\* C22: at the end of every updateBacteriaEntity call made while the game is
\* started, a visible entity means the effective sanity is at most 65, the
\* entity is at least ENTITY_DISAPPEAR_DISTANCE from the player on the ground
\* and hasLineOfSight between them is true for the walls of the call.
C22_VisibleMeans ==
    (lastUpdate.calls > 0 /\ lastUpdate.ready /\ bacteria.visible) =>
        /\ lastUpdate.sanity <= 65
        /\ (((player[1] - bacteria.position[1]) * (player[1] - bacteria.position[1]))
              + ((player[2] - bacteria.position[2]) * (player[2] - bacteria.position[2])))
               >= 64000000
        /\ hasLineOfSight(player, bacteria.position, walls)

\* the entity was visible before the call and is still visible after it
C22_Witness ==
    /\ lastUpdate.calls > 0 /\ lastUpdate.ready /\ lastUpdate.wasVisible
    /\ bacteria.visible
    /\ now - bacteria.spawnStartTime > 0

\* C25: once the entity is hidden by expiry of its visible duration, by the
\* player coming within ENTITY_DISAPPEAR_DISTANCE or by loss of line of
\* sight, it is not visible again before bacteriaNextSpawnDelay, as it was
\* when the entity was hidden, has elapsed since then.
C25_DelayAfterHide ==
    (bacteria.visible /\ hidden.set /\ hidden.cause \in {"expiry", "distance", "sight"}) =>
        bacteria.spawnStartTime - hidden.at >= hidden.delay

====
